---- MODULE Spec2Model ----
(***************************************************************************)
(* Stock Movement Prediction Tracker: the prediction-lifecycle engine.     *)
(*                                                                         *)
(* Units.  Percentages are fixed-point integers in hundredths of a         *)
(* percentage point (2500 = 25.00 %), the resolution calculate_movement    *)
(* rounds to.  Times are minutes of market-local (US/Eastern) time since   *)
(* Monday 00:00 of the first week; a timestamp string is modelled by the   *)
(* instant it denotes, an unparseable string by BadTs, and a timestamp     *)
(* without UTC offset by a number below BadTs (see Naive).  Prices are     *)
(* integers.  Article ids are row numbers (AUTOINCREMENT, nothing is ever  *)
(* deleted), so the articles table is a sequence indexed by id.            *)
(***************************************************************************)
EXTENDS Integers, Sequences, FiniteSets, TLC

VARIABLES
    articles,      \* table articles: Seq of rows, row i has id i
    snapshots,     \* table price_snapshots: Seq of rows, in insertion order
    now,           \* the wall clock, market-local minutes
    pc,            \* "idle" | "collect" | "update": the cycle being run
    today,         \* collect_articles: local `today`
    left,          \* collect_articles: candidates of `articles` still to process
    counts,        \* collect_articles: added_count, duplicate_count, invalid_count
    pending,       \* update_prices: rows of pending_articles still to process
    closed,        \* update_prices: local is_market_closed
    updated_count, \* update_prices: local updated_count
    lastEvent,     \* history: what the last loop iteration did
    cycle,         \* history: what the current/last refresh cycle saw
    ds,            \* determine_status applied to free inputs (SpecStatus only)
    call,          \* another pure function applied to free inputs
    conc           \* two sessions running cycles concurrently (SpecSessions only)

vars == <<articles, snapshots, now, pc, today, left, counts, pending, closed,
          updated_count, lastEvent, cycle, ds, call, conc>>

----------------------------------------------------------------------------
\* Units and program constants

PctScale == 100
Pct(p) == p * PctScale

MinutesPerHour == 60
MinutesPerDay == 24 * MinutesPerHour
Day(d) == d * MinutesPerDay
Clock(h, m) == h * MinutesPerHour + m

MarketOpenMinute == Clock(9, 30)
MarketCloseMinute == Clock(16, 0)
MarketCloseHour == 16

HitThreshold == Pct(5)
PartialThreshold == Pct(10)
DuplicatePercentageTolerance == Pct(3)
DuplicateTimeWindow == 2 * MinutesPerHour

BadTs == 0 - 1
NoPrice == 0 - 1

Abs(x) == IF x < 0 THEN 0 - x ELSE x
Range(s) == {s[i] : i \in 1..Len(s)}

----------------------------------------------------------------------------
\* MarketClock

Weekday(t) == (t \div MinutesPerDay) % 7
MinuteOfDay(t) == t % MinutesPerDay
HourOf(t) == MinuteOfDay(t) \div MinutesPerHour

\* scraper.get_todays_date: the market-local calendar date
GetTodaysDate(t) == t \div MinutesPerDay

\* is_market_closed with the open compared by <=: 09:30:00 itself counts as closed
Mut_IsMarketClosed_OpenInclusive(t) ==
    IF Weekday(t) >= 5 THEN TRUE
    ELSE IF MinuteOfDay(t) <= MarketOpenMinute \/ MinuteOfDay(t) >= MarketCloseMinute
         THEN TRUE
         ELSE FALSE

\* is_market_closed with the close compared by >: 16:00:00 itself counts as open
Mut_IsMarketClosed_CloseExclusive(t) ==
    IF Weekday(t) >= 5 THEN TRUE
    ELSE IF MinuteOfDay(t) < MarketOpenMinute \/ MinuteOfDay(t) > MarketCloseMinute
         THEN TRUE
    ELSE FALSE

IsMarketClosed(t) ==
    IF Weekday(t) >= 5 THEN TRUE
    ELSE IF MinuteOfDay(t) < MarketOpenMinute \/ MinuteOfDay(t) >= MarketCloseMinute
         THEN TRUE
         ELSE FALSE

\* now.replace(hour=h, minute=m, second=0, microsecond=0)
AtClock(t, h, m) == (t \div MinutesPerDay) * MinutesPerDay + Clock(h, m)

\* get_market_status projecting the next open to the following day, weekend
\* or not
Mut_GetMarketStatus_NoWeekendSkip(t, is_closed) ==
    IF Weekday(t) >= 5
    THEN LET days_to_monday == IF (7 - Weekday(t)) % 7 = 0 THEN 1
                               ELSE (7 - Weekday(t)) % 7
         IN  [status |-> "Weekend", is_closed |-> is_closed, current_time |-> t,
              next_change |-> AtClock(t + Day(days_to_monday), 9, 30)]
    ELSE IF is_closed
    THEN IF HourOf(t) < 9 \/ (HourOf(t) = 9 /\ MinuteOfDay(t) % MinutesPerHour < 30)
         THEN [status |-> "Pre-Market", is_closed |-> is_closed, current_time |-> t,
               next_change |-> AtClock(t, 9, 30)]
         ELSE [status |-> "After-Hours", is_closed |-> is_closed, current_time |-> t,
               next_change |-> AtClock(t + Day(1), 9, 30)]
    ELSE [status |-> "Market Open", is_closed |-> is_closed, current_time |-> t,
          next_change |-> AtClock(t, 16, 0)]

\* get_market_status; t: its reading of the clock, is_closed: the answer of
\* is_market_closed, which reads the clock itself
GetMarketStatus(t, is_closed) ==
    IF Weekday(t) >= 5
    THEN LET days_to_monday == IF (7 - Weekday(t)) % 7 = 0 THEN 1
                               ELSE (7 - Weekday(t)) % 7
         IN  [status |-> "Weekend", is_closed |-> is_closed, current_time |-> t,
              next_change |-> AtClock(t + Day(days_to_monday), 9, 30)]
    ELSE IF is_closed
    THEN IF HourOf(t) < 9 \/ (HourOf(t) = 9 /\ MinuteOfDay(t) % MinutesPerHour < 30)
         THEN [status |-> "Pre-Market", is_closed |-> is_closed, current_time |-> t,
               next_change |-> AtClock(t, 9, 30)]
         ELSE LET next_open == AtClock(t + Day(1), 9, 30)
                  days_to_add == IF (7 - Weekday(next_open)) % 7 = 0 THEN 1
                                 ELSE (7 - Weekday(next_open)) % 7
              IN  [status |-> "After-Hours", is_closed |-> is_closed,
                   current_time |-> t,
                   next_change |-> IF Weekday(next_open) >= 5
                                   THEN next_open + Day(days_to_add)
                                   ELSE next_open]
    ELSE [status |-> "Market Open", is_closed |-> is_closed, current_time |-> t,
          next_change |-> AtClock(t, 16, 0)]

----------------------------------------------------------------------------
\* StatusClassifier

PyDirection(x) == IF x > 0 THEN "up" ELSE "down"

\* determine_status with the directions taken by >= 0: a flat move counts as up
Mut_DetermineStatus_ZeroIsUp(claimed_percentage, actual_movement_pct, direction, is_market_closed) ==
    LET claimed_direction == IF claimed_percentage >= 0 THEN "up" ELSE "down"
        actual_direction == IF actual_movement_pct >= 0 THEN "up" ELSE "down"
        gap == Abs(Abs(claimed_percentage) - Abs(actual_movement_pct))
    IN  IF claimed_direction # actual_direction /\ is_market_closed THEN "MISS"
        ELSE IF gap <= HitThreshold /\ claimed_direction = actual_direction THEN "HIT"
        ELSE IF gap <= PartialThreshold /\ claimed_direction = actual_direction
             THEN (IF is_market_closed THEN "PARTIAL" ELSE "PENDING")
        ELSE IF is_market_closed THEN "MISS"
        ELSE "PENDING"

\* determine_status answering PENDING for a gap within 10 points whatever the
\* market flag
Mut_DetermineStatus_PartialStaysPending(claimed_percentage, actual_movement_pct, direction, is_market_closed) ==
    LET claimed_direction == PyDirection(claimed_percentage)
        actual_direction == PyDirection(actual_movement_pct)
        gap == Abs(Abs(claimed_percentage) - Abs(actual_movement_pct))
    IN  IF claimed_direction # actual_direction /\ is_market_closed THEN "MISS"
        ELSE IF gap <= HitThreshold /\ claimed_direction = actual_direction THEN "HIT"
        ELSE IF gap <= PartialThreshold /\ claimed_direction = actual_direction
             THEN "PENDING"
        ELSE IF is_market_closed THEN "MISS"
        ELSE "PENDING"

DetermineStatus(claimed_percentage, actual_movement_pct, direction, is_market_closed) ==
    LET claimed_direction == PyDirection(claimed_percentage)
        actual_direction == PyDirection(actual_movement_pct)
        gap == Abs(Abs(claimed_percentage) - Abs(actual_movement_pct))
    IN  IF claimed_direction # actual_direction /\ is_market_closed THEN "MISS"
        ELSE IF gap <= HitThreshold /\ claimed_direction = actual_direction THEN "HIT"
        ELSE IF gap <= PartialThreshold /\ claimed_direction = actual_direction
             THEN (IF is_market_closed THEN "PARTIAL" ELSE "PENDING")
        ELSE IF is_market_closed THEN "MISS"
        ELSE "PENDING"

----------------------------------------------------------------------------
\* PriceOracle

\* Python round(x, 2) of the exact quotient n/d (d > 0), in hundredths:
\* round-half-to-even
RoundHalfEven(n, d) ==
    LET q == n \div d
        r == n % d
    IN  IF 2 * r < d THEN q
        ELSE IF 2 * r > d THEN q + 1
        ELSE IF q % 2 = 0 THEN q ELSE q + 1

\* calculate_movement cutting the digits after the second decimal off
Mut_CalculateMovement_Truncates(previous_close, current_price) ==
    IF previous_close = 0 THEN 0
    ELSE ((current_price - previous_close) * 100 * PctScale) \div previous_close

CalculateMovement(previous_close, current_price) ==
    IF previous_close = 0 THEN 0
    ELSE RoundHalfEven((current_price - previous_close) * 100 * PctScale, previous_close)

\* get_previous_close taking the close before the last at every hour
Mut_GetPreviousClose_AlwaysPrior(raised, hist, current_hour) ==
    IF raised THEN NoPrice
    ELSE IF Len(hist) < 1 THEN NoPrice
    ELSE IF Len(hist) >= 2 THEN hist[Len(hist) - 1]
    ELSE hist[Len(hist)]

\* hist: the closes of stock.history(period="5d"), oldest first; raised: the
\* lookup threw
GetPreviousClose(raised, hist, current_hour) ==
    IF raised THEN NoPrice
    ELSE IF Len(hist) < 1 THEN NoPrice
    ELSE IF current_hour >= MarketCloseHour THEN hist[Len(hist)]
    ELSE IF Len(hist) >= 2 THEN hist[Len(hist) - 1]
    ELSE hist[Len(hist)]

\* q: what the provider answers: q.info (currentPrice or regularMarketPrice),
\* q.minute (last 1m bar), q.daily (last daily bar), each NoPrice when absent;
\* q.raised: a lookup outside the inner try threw
GetCurrentPrice(q) ==
    IF q.raised THEN NoPrice
    ELSE IF q.info # NoPrice /\ q.info # 0 THEN q.info
    ELSE IF q.minute # NoPrice THEN q.minute
    ELSE IF q.daily # NoPrice THEN q.daily
    ELSE NoPrice

NoData == [ok |-> FALSE, previous_close |-> 0, current_price |-> 0, actual_movement_pct |-> 0]

GetPriceData(raised, hist, q, current_hour) ==
    LET previous_close == GetPreviousClose(raised, hist, current_hour)
        current_price == GetCurrentPrice(q)
    IN  IF previous_close = NoPrice THEN NoData
        ELSE IF current_price = NoPrice THEN NoData
        ELSE [ok |-> TRUE, previous_close |-> previous_close,
              current_price |-> current_price,
              actual_movement_pct |-> CalculateMovement(previous_close, current_price)]

----------------------------------------------------------------------------
\* ClaimExtractor (scraper.py)
\*
\* A text is the sequence of its whitespace-separated tokens.  A token is a
\* run of letters (Word), a run of letters behind a dollar sign (Cash), or a
\* number followed by a percent sign (Percent, the number in hundredths).  The
\* regular expressions are read on tokens: \s+ is the gap between two tokens,
\* \b[A-Z]{2,5}\b under re.IGNORECASE is a run of 2 to 5 letters of either
\* case, and an exclusion pattern, searched without anchors in the lower-cased
\* text, looks at the end of one token and the start of the next.

Word(w) == [k |-> "word", w |-> w, n |-> 0]
Cash(w) == [k |-> "cash", w |-> w, n |-> 0]
Percent(n) == [k |-> "pct", w |-> "", n |-> n]

\* str.lower and str.upper on the words of the vocabulary
Lower(w) ==
    CASE w = "AAPL" -> "aapl"
      [] w = "NVDA" -> "nvda"
      [] w = "TSLA" -> "tsla"
      [] w = "XYZ" -> "xyz"
      [] w = "Yesterday" -> "yesterday"
      [] OTHER -> w

Upper(w) ==
    CASE w \in {"aapl", "AAPL"} -> "AAPL"
      [] w \in {"nvda", "NVDA"} -> "NVDA"
      [] w \in {"tsla", "TSLA"} -> "TSLA"
      [] w \in {"xyz", "XYZ"} -> "XYZ"
      [] w = "may" -> "MAY"
      [] w = "could" -> "COULD"
      [] w = "fall" -> "FALL"
      [] w = "to" -> "TO"
      [] w = "if" -> "IF"
      [] w = "last" -> "LAST"
      [] w = "week" -> "WEEK"
      [] w = "after" -> "AFTER"
      [] w = "surge" -> "SURGE"
      [] w = "up" -> "UP"
      [] w = "down" -> "DOWN"
      [] w = "stock" -> "STOCK"
      [] OTHER -> w

\* len of a word of the vocabulary
Letters(w) ==
    CASE w \in {"if", "to", "up"} -> 2
      [] w \in {"XYZ", "xyz", "may"} -> 3
      [] w \in {"AAPL", "aapl", "NVDA", "nvda", "TSLA", "tsla", "fall", "last", "week",
                "down"} -> 4
      [] w \in {"could", "after", "surge", "stock"} -> 5
      [] w \in {"surges", "shares"} -> 6
      [] w \in {"plunges", "predict"} -> 7
      [] w \in {"expected", "analysts", "earnings"} -> 8
      [] w \in {"yesterday", "Yesterday"} -> 9
      [] OTHER -> 0

\* The atoms of the patterns that are proper parts of a word of the vocabulary
ProperParts(w) ==
    CASE w = "surges" -> {"surge"}
      [] w = "plunges" -> {"plunge"}
      [] w = "analysts" -> {"analyst"}
      [] OTHER -> {}

\* x in w, w.startswith(x), w.endswith(x) on the words of the vocabulary: the
\* proper parts above are all prefixes
Contains(w, x) == w = x \/ x \in ProperParts(w)
StartsWith(w, x) == w = x \/ x \in ProperParts(w)
EndsWith(w, x) == w = x

\* self.movement_patterns, in order: the words allowed after the ticker and
\* whether the ticker needs its dollar sign
MovementPatterns ==
    << [cash |-> FALSE, words |-> <<{"surge", "surges", "jump", "jumps", "soar", "soars",
                                     "rallie", "rallies", "climb", "climbs"}>>],
       [cash |-> FALSE, words |-> <<{"plunge", "plunges", "drop", "drops", "fall", "falls",
                                     "decline", "declines", "tumble", "tumbles"}>>],
       [cash |-> TRUE, words |-> <<{"up", "down"}>>],
       [cash |-> FALSE, words |-> <<{"stock", "shares"}, {"up", "down"}>>] >>

\* self.exclusion_patterns, in order: first\s+then when gap, first alone
\* otherwise; the empty prefix "" in then is the pattern ending after \s+
ExclusionPatterns ==
    << [first |-> {"could"}, gap |-> TRUE, then |-> {"surge", "jump", "rise", "gain"}],
       [first |-> {"might"}, gap |-> TRUE, then |-> {"surge", "jump", "rise", "gain"}],
       [first |-> {"may"}, gap |-> TRUE, then |-> {"surge", "jump", "rise", "gain"}],
       [first |-> {"expected"}, gap |-> TRUE, then |-> {"to"}],
       [first |-> {"projected"}, gap |-> TRUE, then |-> {"to"}],
       [first |-> {"forecasted"}, gap |-> TRUE, then |-> {"to"}],
       [first |-> {"if"}, gap |-> TRUE, then |-> {""}],
       [first |-> {"analyst", "analysts"}, gap |-> TRUE, then |-> {"predict"}],
       [first |-> {"price"}, gap |-> TRUE, then |-> {"target"}],
       [first |-> {"last"}, gap |-> TRUE, then |-> {"week"}],
       [first |-> {"yesterday"}, gap |-> FALSE, then |-> {""}],
       [first |-> {"last"}, gap |-> TRUE, then |-> {"month"}],
       [first |-> {"last"}, gap |-> TRUE, then |-> {"quarter"}],
       [first |-> {"surged"}, gap |-> TRUE, then |-> {"last"}],
       [first |-> {"dropped"}, gap |-> TRUE, then |-> {"last"}] >>

\* re.search(pattern, text_lower) finds the exclusion pattern p at token i
ExclusionAt(text, p, i) ==
    /\ text[i].k \in {"word", "cash"}
    /\ IF p.gap
       THEN /\ \E x \in p.first : EndsWith(Lower(text[i].w), x)
            /\ i < Len(text)
            /\ \/ "" \in p.then
               \/ /\ text[i + 1].k = "word"
                  /\ \E x \in p.then : StartsWith(Lower(text[i + 1].w), x)
       ELSE \E x \in p.first : Contains(Lower(text[i].w), x)

Excluded(text) ==
    \E j \in 1..Len(ExclusionPatterns), i \in 1..Len(text) :
        ExclusionAt(text, ExclusionPatterns[j], i)

\* The number of tokens of a match of movement pattern k
MatchLen(k) == Len(MovementPatterns[k].words) + 2

\* re.finditer(pattern, text, re.IGNORECASE) has a match that starts at token i
MatchAt(text, k, i) ==
    LET p == MovementPatterns[k]
        n == Len(p.words)
    IN  /\ i + n + 1 <= Len(text)
        /\ text[i].k \in (IF p.cash THEN {"cash"} ELSE {"word", "cash"})
        /\ Letters(text[i].w) >= 2
        /\ Letters(text[i].w) <= 5
        /\ \A j \in 1..n : /\ text[i + j].k = "word"
                           /\ Lower(text[i + j].w) \in p.words[j]
        /\ text[i + n + 1].k = "pct"

NoClaim == [ok |-> FALSE, ticker |-> "", percentage |-> 0, direction |-> ""]

\* The tuple returned for the match of pattern k at token i
ClaimOf(text, k, i) ==
    LET percentage == text[i + MatchLen(k) - 1].n
        down == \E j \in i..(i + MatchLen(k) - 2), word \in {"plunge", "drop", "fall",
                                                           "decline", "tumble", "down"} :
                    Contains(Lower(text[j].w), word)
    IN  [ok |-> TRUE, ticker |-> Upper(text[i].w),
         percentage |-> IF down THEN 0 - percentage ELSE percentage,
         direction |-> IF down THEN "down" ELSE "up"]

\* A minimum of 10 points
Mut_MinimumPercentage_Ten == Pct(10)

MinimumPercentage == Pct(20)

\* The two loops giving up at the first match below the minimum (return
\* None for continue)
RECURSIVE Mut_ScanMatches_StopBelowMinimum(_, _, _)
Mut_ScanMatches_StopBelowMinimum(text, k, i) ==
    IF k > Len(MovementPatterns) THEN NoClaim
    ELSE IF i > Len(text) THEN Mut_ScanMatches_StopBelowMinimum(text, k + 1, 1)
    ELSE IF ~MatchAt(text, k, i) THEN Mut_ScanMatches_StopBelowMinimum(text, k, i + 1)
    ELSE IF text[i + MatchLen(k) - 1].n < MinimumPercentage THEN NoClaim
    ELSE ClaimOf(text, k, i)

\* The two loops, from pattern k and token i on; float() of the digits the
\* pattern matched never raises
RECURSIVE ScanMatches(_, _, _)
ScanMatches(text, k, i) ==
    IF k > Len(MovementPatterns) THEN NoClaim
    ELSE IF i > Len(text) THEN ScanMatches(text, k + 1, 1)
    ELSE IF ~MatchAt(text, k, i) THEN ScanMatches(text, k, i + 1)
    ELSE IF text[i + MatchLen(k) - 1].n < MinimumPercentage
         THEN ScanMatches(text, k, i + MatchLen(k))
    ELSE ClaimOf(text, k, i)

ExtractTickerAndPercentage(text) ==
    IF Excluded(text) THEN NoClaim
    ELSE ScanMatches(text, 1, 1)

----------------------------------------------------------------------------
\* PredictionStore (database.py)

\* add_article on a table without the UNIQUE(article_url) constraint
Mut_AddArticle_NoUniqueUrl(arts, ticker, claimed_percentage, direction, article_timestamp, source_name, article_url, headline, collection_date) ==
    [articles |-> Append(arts,
         [ticker |-> ticker, claimed_percentage |-> claimed_percentage,
          direction |-> direction, article_timestamp |-> article_timestamp,
          source_name |-> source_name, article_url |-> article_url,
          headline |-> headline, status |-> "PENDING", is_duplicate |-> FALSE,
          collection_date |-> collection_date]),
     id |-> Len(arts) + 1]

\* INSERT INTO articles; the UNIQUE(article_url) violation is the
\* IntegrityError, answered with None (id 0: `if article_id` treats both alike)
AddArticle(arts, ticker, claimed_percentage, direction, article_timestamp, source_name, article_url, headline, collection_date) ==
    IF \E i \in 1..Len(arts) : arts[i].article_url = article_url
    THEN [articles |-> arts, id |-> 0]
    ELSE [articles |-> Append(arts,
              [ticker |-> ticker, claimed_percentage |-> claimed_percentage,
               direction |-> direction, article_timestamp |-> article_timestamp,
               source_name |-> source_name, article_url |-> article_url,
               headline |-> headline, status |-> "PENDING", is_duplicate |-> FALSE,
               collection_date |-> collection_date]),
          id |-> Len(arts) + 1]

\* check_timestamp (datetime.now() at the insert) is not kept: the table is in
\* insertion order, which is the order of the check timestamps
\* add_price_snapshot keeping one snapshot per article: the article's stored
\* snapshot is overwritten when there is one
Mut_AddPriceSnapshot_KeepsLatest(snaps, article_id, previous_close, current_price, actual_movement_pct, gap) ==
    LET row == [article_id |-> article_id,
                previous_close |-> previous_close, current_price |-> current_price,
                actual_movement_pct |-> actual_movement_pct, gap |-> gap]
    IN  IF \E k \in 1..Len(snaps) : snaps[k].article_id = article_id
        THEN [k \in 1..Len(snaps) |-> IF snaps[k].article_id = article_id THEN row
                                      ELSE snaps[k]]
        ELSE Append(snaps, row)

\* add_price_snapshot storing the gap without its sign
Mut_AddPriceSnapshot_AbsoluteGap(snaps, article_id, previous_close, current_price, actual_movement_pct, gap) ==
    Append(snaps, [article_id |-> article_id,
                   previous_close |-> previous_close, current_price |-> current_price,
                   actual_movement_pct |-> actual_movement_pct, gap |-> Abs(gap)])

AddPriceSnapshot(snaps, article_id, previous_close, current_price, actual_movement_pct, gap) ==
    Append(snaps, [article_id |-> article_id,
                   previous_close |-> previous_close, current_price |-> current_price,
                   actual_movement_pct |-> actual_movement_pct, gap |-> gap])

UpdateArticleStatus(arts, article_id, status) ==
    [i \in 1..Len(arts) |-> IF i = article_id THEN [arts[i] EXCEPT !.status = status]
                            ELSE arts[i]]

\* mark_as_duplicate writing the whole row back as it was inserted, with the
\* flag set
Mut_MarkAsDuplicate_WholeRow(arts, article_id) ==
    [i \in 1..Len(arts) |->
        IF i = article_id THEN [arts[i] EXCEPT !.is_duplicate = TRUE, !.status = "PENDING"]
        ELSE arts[i]]

\* mark_as_duplicate flagging every prediction of the row's ticker and date
Mut_MarkAsDuplicate_WholeGroup(arts, article_id) ==
    [i \in 1..Len(arts) |->
        IF /\ arts[i].ticker = arts[article_id].ticker
           /\ arts[i].collection_date = arts[article_id].collection_date
        THEN [arts[i] EXCEPT !.is_duplicate = TRUE]
        ELSE arts[i]]

MarkAsDuplicate(arts, article_id) ==
    [i \in 1..Len(arts) |-> IF i = article_id THEN [arts[i] EXCEPT !.is_duplicate = TRUE]
                            ELSE arts[i]]

\* The row dictionaries of get_pending_articles, with the keys update_prices reads
PendingRow(arts, i) ==
    [id |-> i, ticker |-> arts[i].ticker,
     claimed_percentage |-> arts[i].claimed_percentage, direction |-> arts[i].direction]

\* cursor.fetchall(): the ids of S, a set of row ids, that lie in i..n, in
\* rowid order
RECURSIVE RowsFrom(_, _, _)
RowsFrom(i, n, S) ==
    IF i > n THEN <<>>
    ELSE IF i = n THEN (IF i \in S THEN <<i>> ELSE <<>>)
    ELSE LET mid == (i + n) \div 2
         IN  RowsFrom(i, mid, S) \o RowsFrom(mid + 1, n, S)

\* get_pending_articles without its WHERE status = 'PENDING'
Mut_GetPendingArticles_AllRows(arts) ==
    [k \in 1..Len(arts) |-> PendingRow(arts, k)]

\* get_pending_articles selecting WHERE status IN ('PENDING', 'HIT')
Mut_GetPendingArticles_KeepsHit(arts) ==
    LET ids == RowsFrom(1, Len(arts),
                        {i \in 1..Len(arts) : arts[i].status \in {"PENDING", "HIT"}})
    IN  [k \in 1..Len(ids) |-> PendingRow(arts, ids[k])]

GetPendingArticles(arts) ==
    LET ids == RowsFrom(1, Len(arts), {i \in 1..Len(arts) : arts[i].status = "PENDING"})
    IN  [k \in 1..Len(ids) |-> PendingRow(arts, ids[k])]

\* A float that is the quotient of two integers, kept exact
Ratio(num, den) == [num |-> num, den |-> den]

\* SUM(claimed_percentage) over the rows ids of arts
RECURSIVE SumClaimed(_, _)
SumClaimed(arts, ids) ==
    IF ids = {} THEN 0
    ELSE LET i == CHOOSE x \in ids : TRUE
         IN  arts[i].claimed_percentage + SumClaimed(arts, ids \ {i})

\* get_daily_stats without its WHERE collection_date = ?
Mut_GetDailyStats_AllDates(arts, date) ==
    LET rows == 1..Len(arts)
        total == Cardinality(rows)
        hits == Cardinality({i \in rows : arts[i].status = "HIT"})
    IN  [total_predictions |-> total,
         hits |-> hits,
         misses |-> Cardinality({i \in rows : arts[i].status = "MISS"}),
         partials |-> Cardinality({i \in rows : arts[i].status = "PARTIAL"}),
         pending |-> Cardinality({i \in rows : arts[i].status = "PENDING"}),
         hit_rate |-> IF total > 0 THEN Ratio(hits * 100, total) ELSE Ratio(0, 1),
         avg_predicted |-> IF total > 0 THEN Ratio(SumClaimed(arts, rows), total)
                           ELSE Ratio(0, 1)]

\* The aggregate SELECT over the rows of one collection_date; a SUM or AVG
\* over no row is NULL, which `or 0` turns into 0
GetDailyStats(arts, date) ==
    LET rows == {i \in 1..Len(arts) : arts[i].collection_date = date}
        total == Cardinality(rows)
        hits == Cardinality({i \in rows : arts[i].status = "HIT"})
    IN  [total_predictions |-> total,
         hits |-> hits,
         misses |-> Cardinality({i \in rows : arts[i].status = "MISS"}),
         partials |-> Cardinality({i \in rows : arts[i].status = "PARTIAL"}),
         pending |-> Cardinality({i \in rows : arts[i].status = "PENDING"}),
         hit_rate |-> IF total > 0 THEN Ratio(hits * 100, total) ELSE Ratio(0, 1),
         avg_predicted |-> IF total > 0 THEN Ratio(SumClaimed(arts, rows), total)
                           ELSE Ratio(0, 1)]

\* datetime.fromisoformat: a timestamp string either denotes an instant or does
\* not parse
Parses(ts) == ts # BadTs

\* A timestamp without UTC offset (datetime.now().isoformat()) that reads t on
\* the wall clock: the negative numbers below BadTs.  The timestamps from 0 on
\* carry the market's offset, as the scrapers write them.
Naive(t) == 0 - (t + 2)
IsNaive(ts) == ts < BadTs
WallClock(ts) == IF IsNaive(ts) THEN 0 - ts - 2 ELSE ts

\* check_for_duplicates with the two tolerances joined by OR
Mut_CheckForDuplicates_EitherBound(arts, ticker, claimed_percentage, article_timestamp, collection_date, t) ==
    LET Near(row) ==
            /\ row.ticker = ticker
            /\ row.collection_date = collection_date
            /\ Parses(article_timestamp) /\ Parses(row.article_timestamp)
            /\ \/ Abs(row.claimed_percentage - claimed_percentage)
                      <= DuplicatePercentageTolerance
               \/ Abs(article_timestamp - row.article_timestamp) <= DuplicateTimeWindow
    IN  RowsFrom(1, Len(arts), {i \in 1..Len(arts) : Near(arts[i])})

\* check_for_duplicates with both tolerances exclusive (< for <=)
Mut_CheckForDuplicates_StrictBounds(arts, ticker, claimed_percentage, article_timestamp, collection_date, t) ==
    LET Near(row) ==
            /\ row.ticker = ticker
            /\ row.collection_date = collection_date
            /\ Parses(article_timestamp) /\ Parses(row.article_timestamp)
            /\ Abs(row.claimed_percentage - claimed_percentage)
                   < DuplicatePercentageTolerance
            /\ Abs(article_timestamp - row.article_timestamp) < DuplicateTimeWindow
    IN  RowsFrom(1, Len(arts), {i \in 1..Len(arts) : Near(arts[i])})

\* t: the clock, read when article_timestamp does not parse: the fallback
\* datetime.now() is a naive time.  Subtracting a naive time from one that
\* carries its UTC offset, or the reverse, raises TypeError, and the bare
\* except skips the row like one whose timestamp does not parse.
CheckForDuplicates(arts, ticker, claimed_percentage, article_timestamp, collection_date, t) ==
    LET article_time == IF Parses(article_timestamp) THEN article_timestamp
                        ELSE Naive(t)
        Selected(row) ==
            /\ row.ticker = ticker
            /\ row.collection_date = collection_date
            /\ Abs(row.claimed_percentage - claimed_percentage)
                   <= DuplicatePercentageTolerance
        InWindow(row) ==
            IF ~Parses(row.article_timestamp) THEN FALSE
            ELSE IF IsNaive(article_time) # IsNaive(row.article_timestamp) THEN FALSE
            ELSE Abs(WallClock(article_time) - WallClock(row.article_timestamp))
                     <= DuplicateTimeWindow
        Keep(row) == Selected(row) /\ InWindow(row)
    IN  RowsFrom(1, Len(arts), {i \in 1..Len(arts) : Keep(arts[i])})

----------------------------------------------------------------------------
\* The loop bodies of the two cycles (app.py)

\* The loop body without the validate_ticker test
Mut_CollectOne_NoValidation(arts, cnt, article, valid, day, t) ==
    LET duplicates == CheckForDuplicates(arts, article.ticker, article.claimed_percentage,
                                         article.article_timestamp, day, t)
        res == AddArticle(arts, article.ticker, article.claimed_percentage,
                          article.direction, article.article_timestamp,
                          article.source_name, article.article_url, article.headline, day)
    IN  IF res.id # 0
        THEN [articles |-> res.articles,
              counts |-> [cnt EXCEPT !.added = @ + 1],
              kind |-> "added", id |-> res.id,
              dups |-> duplicates, checked |-> TRUE]
        ELSE [articles |-> res.articles,
              counts |-> [cnt EXCEPT !.duplicate = @ + 1],
              kind |-> "urldup", id |-> 0,
              dups |-> duplicates, checked |-> TRUE]

\* The loop body discarding a candidate that has near-duplicates
Mut_CollectOne_DropNearDuplicate(arts, cnt, article, valid, day, t) ==
    IF ~valid
    THEN [articles |-> arts, counts |-> [cnt EXCEPT !.invalid = @ + 1],
          kind |-> "invalid", id |-> 0,
          dups |-> <<>>, checked |-> FALSE]
    ELSE
    LET duplicates == CheckForDuplicates(arts, article.ticker, article.claimed_percentage,
                                         article.article_timestamp, day, t)
        res == IF duplicates # <<>> THEN [articles |-> arts, id |-> 0]
               ELSE AddArticle(arts, article.ticker, article.claimed_percentage,
                          article.direction, article.article_timestamp,
                          article.source_name, article.article_url, article.headline, day)
    IN  IF res.id # 0
        THEN [articles |-> res.articles,
              counts |-> [cnt EXCEPT !.added = @ + 1],
              kind |-> "added", id |-> res.id,
              dups |-> duplicates, checked |-> TRUE]
        ELSE [articles |-> res.articles,
              counts |-> [cnt EXCEPT !.duplicate = @ + 1],
              kind |-> "urldup", id |-> 0,
              dups |-> duplicates, checked |-> TRUE]

\* One iteration of collect_articles' loop over the scraped candidates.
\* valid: the answer of validate_ticker; day: local `today`; t: the clock
CollectOne(arts, cnt, article, valid, day, t) ==
    IF ~valid
    THEN [articles |-> arts, counts |-> [cnt EXCEPT !.invalid = @ + 1],
          kind |-> "invalid", id |-> 0,
          dups |-> <<>>, checked |-> FALSE]
    ELSE
    LET duplicates == CheckForDuplicates(arts, article.ticker, article.claimed_percentage,
                                         article.article_timestamp, day, t)
        res == AddArticle(arts, article.ticker, article.claimed_percentage,
                          article.direction, article.article_timestamp,
                          article.source_name, article.article_url, article.headline, day)
    IN  IF res.id # 0
        THEN [articles |-> IF duplicates # <<>> THEN MarkAsDuplicate(res.articles, res.id)
                           ELSE res.articles,
              counts |-> IF duplicates # <<>>
                         THEN [cnt EXCEPT !.added = @ + 1, !.duplicate = @ + 1]
                         ELSE [cnt EXCEPT !.added = @ + 1],
              kind |-> "added", id |-> res.id,
              dups |-> duplicates, checked |-> TRUE]
        ELSE [articles |-> res.articles,
              counts |-> [cnt EXCEPT !.duplicate = @ + 1],
              kind |-> "urldup", id |-> 0,
              dups |-> duplicates, checked |-> TRUE]

\* add_article when the INSERT may raise something other than IntegrityError
\* (sqlite3.OperationalError: database is locked, disk I/O error): the
\* handler prints the error and returns None, and nothing is stored.
AddArticleIn(fault, arts, ticker, claimed_percentage, direction, article_timestamp, source_name, article_url, headline, collection_date) ==
    IF fault THEN [articles |-> arts, id |-> 0]
    ELSE AddArticle(arts, ticker, claimed_percentage, direction, article_timestamp,
                    source_name, article_url, headline, collection_date)

\* The loop body of collect_articles in a store whose INSERT may fail
CollectOneIn(fault, arts, cnt, article, valid, day, t) ==
    IF ~valid
    THEN [articles |-> arts, counts |-> [cnt EXCEPT !.invalid = @ + 1],
          kind |-> "invalid", id |-> 0,
          dups |-> <<>>, checked |-> FALSE]
    ELSE
    LET duplicates == CheckForDuplicates(arts, article.ticker, article.claimed_percentage,
                                         article.article_timestamp, day, t)
        res == AddArticleIn(fault, arts, article.ticker, article.claimed_percentage,
                            article.direction, article.article_timestamp,
                            article.source_name, article.article_url, article.headline, day)
    IN  IF res.id # 0
        THEN [articles |-> IF duplicates # <<>> THEN MarkAsDuplicate(res.articles, res.id)
                           ELSE res.articles,
              counts |-> IF duplicates # <<>>
                         THEN [cnt EXCEPT !.added = @ + 1, !.duplicate = @ + 1]
                         ELSE [cnt EXCEPT !.added = @ + 1],
              kind |-> "added", id |-> res.id,
              dups |-> duplicates, checked |-> TRUE]
        ELSE [articles |-> res.articles,
              counts |-> [cnt EXCEPT !.duplicate = @ + 1],
              kind |-> IF fault THEN "fault" ELSE "urldup", id |-> 0,
              dups |-> duplicates, checked |-> TRUE]

\* The loop body with break for continue: a failed lookup ends the batch
Mut_UpdateOne_AbortOnFailure(arts, snaps, pend, price_data, is_market_closed, t) ==
    LET article == Head(pend)
    IN  IF ~price_data.ok
        THEN [articles |-> arts, snapshots |-> snaps, rest |-> <<>>, updated |-> 0,
              kind |-> "skip", id |-> article.id]
        ELSE
        LET gap == article.claimed_percentage - price_data.actual_movement_pct
            status == DetermineStatus(article.claimed_percentage,
                                      price_data.actual_movement_pct,
                                      article.direction, is_market_closed)
        IN  [articles |-> UpdateArticleStatus(arts, article.id, status),
             snapshots |-> AddPriceSnapshot(snaps, article.id,
                               price_data.previous_close, price_data.current_price,
                               price_data.actual_movement_pct, gap),
             rest |-> Tail(pend), updated |-> 1,
             kind |-> "priced", id |-> article.id]

\* The loop body recording a failed lookup as MISS
Mut_UpdateOne_MissOnFailure(arts, snaps, pend, price_data, is_market_closed, t) ==
    LET article == Head(pend)
    IN  IF ~price_data.ok
        THEN [articles |-> UpdateArticleStatus(arts, article.id, "MISS"),
              snapshots |-> snaps, rest |-> Tail(pend), updated |-> 0,
              kind |-> "skip", id |-> article.id]
        ELSE
        LET gap == article.claimed_percentage - price_data.actual_movement_pct
            status == DetermineStatus(article.claimed_percentage,
                                      price_data.actual_movement_pct,
                                      article.direction, is_market_closed)
        IN  [articles |-> UpdateArticleStatus(arts, article.id, status),
             snapshots |-> AddPriceSnapshot(snaps, article.id,
                               price_data.previous_close, price_data.current_price,
                               price_data.actual_movement_pct, gap),
             rest |-> Tail(pend), updated |-> 1,
             kind |-> "priced", id |-> article.id]

\* The loop body storing a snapshot only when the status stays PENDING
Mut_UpdateOne_SnapshotWhilePending(arts, snaps, pend, price_data, is_market_closed, t) ==
    LET article == Head(pend)
    IN  IF ~price_data.ok
        THEN [articles |-> arts, snapshots |-> snaps, rest |-> Tail(pend), updated |-> 0,
              kind |-> "skip", id |-> article.id]
        ELSE
        LET gap == article.claimed_percentage - price_data.actual_movement_pct
            status == DetermineStatus(article.claimed_percentage,
                                      price_data.actual_movement_pct,
                                      article.direction, is_market_closed)
        IN  [articles |-> UpdateArticleStatus(arts, article.id, status),
             snapshots |-> IF status = "PENDING"
                           THEN AddPriceSnapshot(snaps, article.id,
                                    price_data.previous_close, price_data.current_price,
                                    price_data.actual_movement_pct, gap)
                           ELSE snaps,
             rest |-> Tail(pend), updated |-> 1,
             kind |-> "priced", id |-> article.id]

\* One iteration of update_prices' loop; pend: the rows of pending_articles not
\* yet visited, price_data: the answer of get_price_data for the first of them
UpdateOne(arts, snaps, pend, price_data, is_market_closed, t) ==
    LET article == Head(pend)
    IN  IF ~price_data.ok
        THEN [articles |-> arts, snapshots |-> snaps, rest |-> Tail(pend), updated |-> 0,
              kind |-> "skip", id |-> article.id]
        ELSE
        LET gap == article.claimed_percentage - price_data.actual_movement_pct
            status == DetermineStatus(article.claimed_percentage,
                                      price_data.actual_movement_pct,
                                      article.direction, is_market_closed)
        IN  [articles |-> UpdateArticleStatus(arts, article.id, status),
             snapshots |-> AddPriceSnapshot(snaps, article.id,
                               price_data.previous_close, price_data.current_price,
                               price_data.actual_movement_pct, gap),
             rest |-> Tail(pend), updated |-> 1,
             kind |-> "priced", id |-> article.id]

----------------------------------------------------------------------------
\* Bounds of the model

MaxArticles == 2
MaxSnapshots == 2

----------------------------------------------------------------------------
\* The environment: the clock, the scraped feed, the market-data provider

Friday == Day(4)
Saturday == Day(5)
T0 == Friday + MarketOpenMinute

\* The instants the clock visits: pre-market, the open of the session, the
\* weekend after its close
Instants == {Friday + Clock(9, 0), T0, Saturday + Clock(10, 0)}

\* The feed entries of the sources: text (headline and summary), publication
\* time and link.  Percentages and publication times sit on both sides of the
\* duplicate tolerances; an entry scraped again brings its URL again; the last
\* entry holds no claim of at least MinimumPercentage.
RawFeed ==
    { [text |-> <<Word("NVDA"), Word("surges"), Percent(Pct(24))>>,
       ts |-> T0, url |-> "u1"],
      [text |-> <<Word("NVDA"), Word("surges"), Percent(Pct(27))>>,
       ts |-> T0 + DuplicateTimeWindow, url |-> "u2"],
      [text |-> <<Word("NVDA"), Word("surges"), Percent(Pct(27) + 1)>>,
       ts |-> T0, url |-> "u3"],
      [text |-> <<Word("NVDA"), Word("surges"), Percent(Pct(24))>>,
       ts |-> T0 + DuplicateTimeWindow + 1, url |-> "u4"],
      [text |-> <<Word("AAPL"), Word("plunges"), Percent(Pct(22))>>,
       ts |-> T0, url |-> "u5"],
      [text |-> <<Word("TSLA"), Word("surges"), Percent(Pct(10))>>,
       ts |-> T0, url |-> "u6"] }

\* The dict a scraper appends for a feed entry whose text holds a claim
Scraped(e) ==
    LET result == ExtractTickerAndPercentage(e.text)
    IN  [ticker |-> result.ticker, claimed_percentage |-> result.percentage,
         direction |-> result.direction, article_timestamp |-> e.ts,
         source_name |-> "Yahoo Finance", article_url |-> e.url, headline |-> "h"]

\* What scrape_all_sources can return
Feed == {Scraped(e) : e \in {x \in RawFeed : ExtractTickerAndPercentage(x.text).ok}}

\* Closes of the recent sessions, oldest first
Hists == {<<>>, <<100>>, <<100, 125>>}

Quote(raised, info, minute, daily) ==
    [raised |-> raised, info |-> info, minute |-> minute, daily |-> daily]

Quotes == {Quote(FALSE, 123, NoPrice, NoPrice), Quote(FALSE, NoPrice, 117, NoPrice),
           Quote(FALSE, 0, NoPrice, 80), Quote(FALSE, NoPrice, NoPrice, NoPrice),
           Quote(TRUE, NoPrice, NoPrice, NoPrice)}

\* The provider has no data for the ticker: the history lookup threw or is
\* empty, or the quote lookup threw or every price source is missing
Unavailable(raised, hist, q) ==
    \/ raised
    \/ hist = <<>>
    \/ q.raised
    \/ /\ q.info \in {NoPrice, 0}
       /\ q.minute = NoPrice
       /\ q.daily = NoPrice

NoCand == [ticker |-> "", claimed_percentage |-> 0, direction |-> "",
           article_timestamp |-> BadTs, source_name |-> "", article_url |-> "",
           headline |-> ""]
NoEvent == [kind |-> "none", id |-> 0, cand |-> NoCand, valid |-> FALSE, dups |-> <<>>,
            checked |-> FALSE, unavailable |-> FALSE]
NoCycle == [start |-> 0, batch |-> <<>>, base |-> 0, data |-> {}, nodata |-> {}]
NoDs == [done |-> FALSE, claimed |-> 0, actual |-> 0, direction |-> "up",
         closed |-> FALSE, result |-> "PENDING"]
ZeroCounts == [added |-> 0, duplicate |-> 0, invalid |-> 0]
NoCall == [fn |-> "none"]
NoConc == [on |-> FALSE]

----------------------------------------------------------------------------
\* The application: ingestion cycles and refresh cycles, one at a time

Init ==
    /\ articles = <<>>
    /\ snapshots = <<>>
    /\ now = Friday + Clock(9, 0)
    /\ pc = "idle"
    /\ today = 0
    /\ left = 0
    /\ counts = ZeroCounts
    /\ pending = <<>>
    /\ closed = FALSE
    /\ updated_count = 0
    /\ lastEvent = NoEvent
    /\ cycle = NoCycle
    /\ ds = NoDs
    /\ call = NoCall
    /\ conc = NoConc

Tick ==
    /\ pc = "idle"
    /\ \E t \in Instants : t > now /\ now' = t
    /\ lastEvent' = NoEvent
    /\ UNCHANGED <<articles, snapshots, pc, today, left, counts, pending, closed,
                   updated_count, cycle, ds, call, conc>>

\* collect_articles up to its loop: n candidates were scraped
StartCollect ==
    /\ pc = "idle"
    /\ \E n \in 0..(MaxArticles - Len(articles)) : left' = n
    /\ today' = GetTodaysDate(now)
    /\ counts' = ZeroCounts
    /\ pc' = "collect"
    /\ lastEvent' = NoEvent
    /\ UNCHANGED <<articles, snapshots, now, pending, closed, updated_count, cycle, ds, call, conc>>

CollectItem ==
    /\ pc = "collect"
    /\ left > 0
    /\ \E article \in Feed, valid \in BOOLEAN :
          LET r == CollectOne(articles, counts, article, valid, today, now)
          IN  /\ articles' = r.articles
              /\ counts' = r.counts
              /\ lastEvent' = [kind |-> r.kind, id |-> r.id, cand |-> article,
                               valid |-> valid, dups |-> r.dups, checked |-> r.checked,
                               unavailable |-> FALSE]
    /\ left' = left - 1
    /\ UNCHANGED <<snapshots, now, pc, today, pending, closed, updated_count, cycle, ds, call, conc>>

\* collect_articles returns: its locals are gone
EndCollect ==
    /\ pc = "collect"
    /\ left = 0
    /\ pc' = "idle"
    /\ today' = 0
    /\ counts' = ZeroCounts
    /\ lastEvent' = NoEvent
    /\ UNCHANGED <<articles, snapshots, now, left, pending, closed,
                   updated_count, cycle, ds, call, conc>>

\* One iteration of the collection loop in a store whose INSERT may fail
CollectItemFaulty ==
    /\ pc = "collect"
    /\ left > 0
    /\ \E article \in Feed, valid \in BOOLEAN, fault \in BOOLEAN :
          LET r == CollectOneIn(fault, articles, counts, article, valid, today, now)
          IN  /\ articles' = r.articles
              /\ counts' = r.counts
              /\ lastEvent' = [kind |-> r.kind, id |-> r.id, cand |-> article,
                               valid |-> valid, dups |-> r.dups, checked |-> r.checked,
                               unavailable |-> FALSE]
    /\ left' = left - 1
    /\ UNCHANGED <<snapshots, now, pc, today, pending, closed, updated_count, cycle, ds, call, conc>>

\* update_prices up to its loop, in a store that holds at most cap snapshots
StartUpdateWithin(cap) ==
    /\ pc = "idle"
    /\ LET rows == GetPendingArticles(articles)
       IN  /\ Len(snapshots) + Len(rows) <= cap
           /\ pending' = rows
           /\ cycle' = [start |-> now, batch |-> [k \in 1..Len(rows) |-> rows[k].id],
                        base |-> Len(snapshots), data |-> {}, nodata |-> {}]
    /\ closed' = IsMarketClosed(now)
    /\ updated_count' = 0
    /\ pc' = "update"
    /\ lastEvent' = NoEvent
    /\ UNCHANGED <<articles, snapshots, now, today, left, counts, ds, call, conc>>

StartUpdate == StartUpdateWithin(MaxSnapshots)

\* One iteration of the loop of update_prices, the provider answering with
\* one of the given outcomes
UpdateItemWith(Raised, Histories, Answers) ==
    /\ pc = "update"
    /\ pending # <<>>
    /\ \E raised \in Raised, hist \in Histories, q \in Answers :
          LET price_data == GetPriceData(raised, hist, q, HourOf(now))
              r == UpdateOne(articles, snapshots, pending, price_data, closed, now)
          IN  /\ articles' = r.articles
              /\ snapshots' = r.snapshots
              /\ pending' = r.rest
              /\ updated_count' = updated_count + r.updated
              /\ lastEvent' = [kind |-> r.kind, id |-> r.id, cand |-> NoCand,
                               valid |-> FALSE, dups |-> <<>>, checked |-> FALSE,
                               unavailable |-> Unavailable(raised, hist, q)]
              /\ cycle' = IF Unavailable(raised, hist, q)
                          THEN [cycle EXCEPT !.nodata = @ \cup {Head(pending).id}]
                          ELSE [cycle EXCEPT !.data = @ \cup {Head(pending).id}]
    /\ UNCHANGED <<now, pc, today, left, counts, closed, ds, call, conc>>

UpdateItem == UpdateItemWith(BOOLEAN, Hists, Quotes)

\* update_prices returns: its locals are gone
EndUpdate ==
    /\ pc = "update"
    /\ pending = <<>>
    /\ pc' = "idle"
    /\ closed' = FALSE
    /\ updated_count' = 0
    /\ cycle' = NoCycle
    /\ lastEvent' = NoEvent
    /\ UNCHANGED <<articles, snapshots, now, today, left, counts, pending, ds, call, conc>>

Next ==
    \/ Tick
    \/ StartCollect
    \/ CollectItem
    \/ EndCollect
    \/ StartUpdate
    \/ UpdateItem
    \/ EndUpdate

Spec == Init /\ [][Next]_vars

----------------------------------------------------------------------------
\* One refresh cycle over a backlog of pending predictions

\* config_template.py: "Batch limit per refresh"
MAX_TRACKED_STOCKS == 100

\* The largest backlog: one prediction more than the batch limit
MaxBacklog == 101

\* n predictions of one claim, each scraped under its own URL, as n ingestion
\* steps store them: all pending, all but the first marked as duplicates
Backlog(n) ==
    [i \in 1..n |->
        [ticker |-> "NVDA", claimed_percentage |-> Pct(24), direction |-> "up",
         article_timestamp |-> T0, source_name |-> "Yahoo Finance",
         article_url |-> "u" \o ToString(i), headline |-> "h", status |-> "PENDING",
         is_duplicate |-> i > 1, collection_date |-> GetTodaysDate(T0)]]

\* The provider answers every lookup of the cycle alike: with data, or not
InitBacklog ==
    /\ \E n \in (MAX_TRACKED_STOCKS - 1)..MaxBacklog : articles = Backlog(n)
    /\ snapshots = <<>>
    /\ now = T0
    /\ pc = "idle"
    /\ today = 0
    /\ left = 0
    /\ counts = ZeroCounts
    /\ pending = <<>>
    /\ closed = FALSE
    /\ updated_count = 0
    /\ lastEvent = NoEvent
    /\ cycle = NoCycle
    /\ ds = NoDs
    /\ \E down \in BOOLEAN : call = [fn |-> "backlog", down |-> down]
    /\ conc = NoConc

BacklogStartUpdate ==
    /\ snapshots = <<>>
    /\ StartUpdateWithin(MaxBacklog)

BacklogUpdateItem ==
    UpdateItemWith({call.down}, {<<100, 125>>}, {Quote(FALSE, 123, NoPrice, NoPrice)})

NextBacklog ==
    \/ BacklogStartUpdate
    \/ BacklogUpdateItem
    \/ EndUpdate

SpecBacklog == InitBacklog /\ [][NextBacklog]_vars

----------------------------------------------------------------------------
\* Two sessions of the application on one store: one runs ingestion cycles,
\* the other refresh cycles, interleaved statement by statement.  Every
\* Database method opens its own connection, executes one statement and
\* commits, so a step is one store statement together with the local
\* computation that leads to it.  The ingestion session uses today, left and
\* counts, the refresh session pending, closed and updated_count; conc holds
\* their positions (c, u), the locals in flight, and three history fields:
\* decided[i], what the ingestion cycle decided for the flag of row i;
\* applied[i], the last status a refresh cycle wrote to row i; raced, whether
\* a row was flagged after a refresh cycle had reclassified it.

\* The candidates the ingestion session draws from
SessionFeed == {a \in Feed : a.article_url \in {"u1", "u2", "u5"}}

IdleSessions ==
    [on |-> TRUE, c |-> "idle", u |-> "idle", article |-> NoCand, dups |-> <<>>,
     id |-> 0, data |-> NoData, decided |-> <<>>, applied |-> <<>>, raced |-> FALSE]

InitSessions ==
    /\ articles = <<>>
    /\ snapshots = <<>>
    /\ now = Friday + Clock(9, 0)
    /\ pc = "sessions"
    /\ today = 0
    /\ left = 0
    /\ counts = ZeroCounts
    /\ pending = <<>>
    /\ closed = FALSE
    /\ updated_count = 0
    /\ lastEvent = NoEvent
    /\ cycle = NoCycle
    /\ ds = NoDs
    /\ call = NoCall
    /\ conc = IdleSessions

SessionTick ==
    /\ conc.on
    /\ \E t \in Instants : t > now /\ now' = t
    /\ UNCHANGED <<articles, snapshots, pc, today, left, counts, pending, closed,
                   updated_count, lastEvent, cycle, ds, call, conc>>

\* collect_articles up to its loop
IngestStart ==
    /\ conc.on /\ conc.c = "idle"
    /\ \E n \in 0..(MaxArticles - Len(articles)) : left' = n
    /\ today' = GetTodaysDate(now)
    /\ counts' = ZeroCounts
    /\ conc' = [conc EXCEPT !.c = "loop"]
    /\ UNCHANGED <<articles, snapshots, now, pc, pending, closed, updated_count,
                   lastEvent, cycle, ds, call>>

\* validate_ticker, then check_for_duplicates
IngestCheck ==
    /\ conc.on /\ conc.c = "loop"
    /\ left > 0
    /\ \E article \in SessionFeed, valid \in BOOLEAN :
          IF ~valid
          THEN /\ counts' = [counts EXCEPT !.invalid = @ + 1]
               /\ left' = left - 1
               /\ UNCHANGED conc
          ELSE /\ conc' = [conc EXCEPT
                             !.c = "add", !.article = article,
                             !.dups = CheckForDuplicates(articles, article.ticker,
                                          article.claimed_percentage,
                                          article.article_timestamp, today, now)]
               /\ UNCHANGED <<left, counts>>
    /\ UNCHANGED <<articles, snapshots, now, pc, today, pending, closed, updated_count,
                   lastEvent, cycle, ds, call>>

\* add_article
IngestAdd ==
    /\ conc.on /\ conc.c = "add"
    /\ LET a == conc.article
           res == AddArticle(articles, a.ticker, a.claimed_percentage, a.direction,
                             a.article_timestamp, a.source_name, a.article_url,
                             a.headline, today)
       IN  /\ articles' = res.articles
           /\ IF res.id = 0
              THEN /\ counts' = [counts EXCEPT !.duplicate = @ + 1]
                   /\ left' = left - 1
                   /\ conc' = [conc EXCEPT !.c = "loop", !.article = NoCand,
                                           !.dups = <<>>]
              ELSE /\ counts' = [counts EXCEPT !.added = @ + 1]
                   /\ IF conc.dups # <<>>
                      THEN /\ left' = left
                           /\ conc' = [conc EXCEPT
                                         !.c = "mark", !.id = res.id,
                                         !.article = NoCand, !.dups = <<>>,
                                         !.decided = Append(@, TRUE),
                                         !.applied = Append(@, "PENDING")]
                      ELSE /\ left' = left - 1
                           /\ conc' = [conc EXCEPT
                                         !.c = "loop", !.article = NoCand,
                                         !.decided = Append(@, FALSE),
                                         !.applied = Append(@, "PENDING")]
    /\ UNCHANGED <<snapshots, now, pc, today, pending, closed, updated_count,
                   lastEvent, cycle, ds, call>>

\* mark_as_duplicate
IngestMark ==
    /\ conc.on /\ conc.c = "mark"
    /\ articles' = MarkAsDuplicate(articles, conc.id)
    /\ counts' = [counts EXCEPT !.duplicate = @ + 1]
    /\ left' = left - 1
    /\ conc' = [conc EXCEPT !.c = "loop", !.id = 0,
                            !.raced = @ \/ conc.applied[conc.id] # "PENDING"]
    /\ UNCHANGED <<snapshots, now, pc, today, pending, closed, updated_count,
                   lastEvent, cycle, ds, call>>

\* collect_articles returns
IngestEnd ==
    /\ conc.on /\ conc.c = "loop"
    /\ left = 0
    /\ today' = 0
    /\ counts' = ZeroCounts
    /\ conc' = [conc EXCEPT !.c = "idle"]
    /\ UNCHANGED <<articles, snapshots, now, pc, left, pending, closed, updated_count,
                   lastEvent, cycle, ds, call>>

\* update_prices up to its loop
RefreshStart ==
    /\ conc.on /\ conc.u = "idle"
    /\ LET rows == GetPendingArticles(articles)
       IN  /\ Len(snapshots) + Len(rows) <= MaxSnapshots
           /\ pending' = rows
    /\ closed' = IsMarketClosed(now)
    /\ updated_count' = 0
    /\ conc' = [conc EXCEPT !.u = "loop"]
    /\ UNCHANGED <<articles, snapshots, now, pc, today, left, counts, lastEvent,
                   cycle, ds, call>>

\* get_price_data, then add_price_snapshot when there is data
RefreshLookup ==
    /\ conc.on /\ conc.u = "loop"
    /\ pending # <<>>
    /\ \E raised \in BOOLEAN, hist \in Hists, q \in Quotes :
          LET article == Head(pending)
              price_data == GetPriceData(raised, hist, q, HourOf(now))
              gap == article.claimed_percentage - price_data.actual_movement_pct
          IN  IF ~price_data.ok
              THEN /\ pending' = Tail(pending)
                   /\ UNCHANGED <<snapshots, conc>>
              ELSE /\ snapshots' = AddPriceSnapshot(snapshots, article.id,
                                        price_data.previous_close,
                                        price_data.current_price,
                                        price_data.actual_movement_pct, gap)
                   /\ conc' = [conc EXCEPT !.u = "status", !.data = price_data]
                   /\ UNCHANGED pending
    /\ UNCHANGED <<articles, now, pc, today, left, counts, closed, updated_count,
                   lastEvent, cycle, ds, call>>

\* determine_status, then update_article_status
RefreshStatus ==
    /\ conc.on /\ conc.u = "status"
    /\ LET article == Head(pending)
           status == DetermineStatus(article.claimed_percentage,
                                     conc.data.actual_movement_pct,
                                     article.direction, closed)
       IN  /\ articles' = UpdateArticleStatus(articles, article.id, status)
           /\ conc' = [conc EXCEPT !.u = "loop", !.data = NoData,
                                   !.applied[article.id] = status]
    /\ pending' = Tail(pending)
    /\ updated_count' = updated_count + 1
    /\ UNCHANGED <<snapshots, now, pc, today, left, counts, closed, lastEvent,
                   cycle, ds, call>>

\* update_prices returns
RefreshEnd ==
    /\ conc.on /\ conc.u = "loop"
    /\ pending = <<>>
    /\ closed' = FALSE
    /\ updated_count' = 0
    /\ conc' = [conc EXCEPT !.u = "idle"]
    /\ UNCHANGED <<articles, snapshots, now, pc, today, left, counts, pending,
                   lastEvent, cycle, ds, call>>

NextSessions ==
    \/ SessionTick
    \/ IngestStart
    \/ IngestCheck
    \/ IngestAdd
    \/ IngestMark
    \/ IngestEnd
    \/ RefreshStart
    \/ RefreshLookup
    \/ RefreshStatus
    \/ RefreshEnd

SpecSessions == InitSessions /\ [][NextSessions]_vars

----------------------------------------------------------------------------
\* extract_ticker_and_percentage on its own: every text made of a few phrases

MaxPhrases == 3

Phrases ==
    { <<Word("AAPL"), Word("surges"), Percent(Pct(25))>>,
      <<Word("TSLA"), Word("surges"), Percent(Pct(10))>>,
      <<Word("XYZ"), Word("plunges"), Percent(Pct(22))>>,
      <<Cash("NVDA"), Word("up"), Percent(Pct(20))>>,
      <<Word("nvda"), Word("shares"), Word("down"), Percent(Pct(20) - 1)>>,
      <<Word("aapl"), Word("stock"), Word("up"), Percent(Pct(30))>>,
      <<Word("after"), Word("earnings")>>,
      <<Word("could"), Word("surge")>>,
      <<Word("may"), Word("fall")>>,
      <<Word("expected"), Word("to")>>,
      <<Word("analysts"), Word("predict")>>,
      <<Word("Yesterday")>>,
      <<Word("last"), Word("week")>>,
      <<Word("if")>> }

RECURSIVE TextsOf(_)
TextsOf(n) ==
    IF n = 0 THEN {<<>>}
    ELSE LET shorter == TextsOf(n - 1)
         IN  shorter \cup {t \o ph : t \in shorter, ph \in Phrases}

Texts == TextsOf(MaxPhrases)

InitExtract ==
    /\ articles = <<>>
    /\ snapshots = <<>>
    /\ now = Friday + Clock(9, 0)
    /\ pc = "idle"
    /\ today = 0
    /\ left = 0
    /\ counts = ZeroCounts
    /\ pending = <<>>
    /\ closed = FALSE
    /\ updated_count = 0
    /\ lastEvent = NoEvent
    /\ cycle = NoCycle
    /\ ds = NoDs
    /\ \E text \in Texts : call = [fn |-> "extract", text |-> text, done |-> FALSE,
                                  result |-> NoClaim]
    /\ conc = NoConc

CallExtract ==
    /\ call.fn = "extract"
    /\ ~call.done
    /\ call' = [call EXCEPT !.done = TRUE,
                            !.result = ExtractTickerAndPercentage(call.text)]
    /\ UNCHANGED <<articles, snapshots, now, pc, today, left, counts, pending, closed,
                   updated_count, lastEvent, cycle, ds, conc>>

NextExtract == CallExtract

SpecExtract == InitExtract /\ [][NextExtract]_vars

----------------------------------------------------------------------------
\* is_market_closed on its own: every minute of a week

InitClock ==
    /\ articles = <<>>
    /\ snapshots = <<>>
    /\ now \in 0..(7 * MinutesPerDay - 1)
    /\ pc = "idle"
    /\ today = 0
    /\ left = 0
    /\ counts = ZeroCounts
    /\ pending = <<>>
    /\ closed = FALSE
    /\ updated_count = 0
    /\ lastEvent = NoEvent
    /\ cycle = NoCycle
    /\ ds = NoDs
    /\ call = [fn |-> "closed", done |-> FALSE, result |-> FALSE]
    /\ conc = NoConc

CallIsMarketClosed ==
    /\ call.fn = "closed"
    /\ ~call.done
    /\ call' = [call EXCEPT !.done = TRUE, !.result = IsMarketClosed(now)]
    /\ UNCHANGED <<articles, snapshots, now, pc, today, left, counts, pending, closed,
                   updated_count, lastEvent, cycle, ds, conc>>

NextClock == CallIsMarketClosed

SpecClock == InitClock /\ [][NextClock]_vars

----------------------------------------------------------------------------
\* calculate_movement on its own: small prices, and the closes 100 and 125

MaxPrice == 12

Prices == (0..MaxPrice) \cup {100, 125}

InitMovement ==
    /\ articles = <<>>
    /\ snapshots = <<>>
    /\ now = Friday + Clock(9, 0)
    /\ pc = "idle"
    /\ today = 0
    /\ left = 0
    /\ counts = ZeroCounts
    /\ pending = <<>>
    /\ closed = FALSE
    /\ updated_count = 0
    /\ lastEvent = NoEvent
    /\ cycle = NoCycle
    /\ ds = NoDs
    /\ \E previous_close \in Prices, current_price \in Prices :
          call = [fn |-> "movement", previous_close |-> previous_close,
                  current_price |-> current_price, done |-> FALSE, result |-> 0]
    /\ conc = NoConc

CallCalculateMovement ==
    /\ call.fn = "movement"
    /\ ~call.done
    /\ call' = [call EXCEPT !.done = TRUE,
                            !.result = CalculateMovement(call.previous_close,
                                                         call.current_price)]
    /\ UNCHANGED <<articles, snapshots, now, pc, today, left, counts, pending, closed,
                   updated_count, lastEvent, cycle, ds, conc>>

NextMovement == CallCalculateMovement

SpecMovement == InitMovement /\ [][NextMovement]_vars

----------------------------------------------------------------------------
\* Two sessions of the application on one store, both running refresh cycles,
\* interleaved statement by statement: get_pending_articles is one statement,
\* add_price_snapshot another, update_article_status a third.  conc.r[s] holds
\* the locals of session s: its position u, pending_articles still to visit,
\* is_market_closed, the price data in flight and updated_count, and two
\* history fields: start, the instant the cycle started at, and snap, the
\* position in price_snapshots of the snapshot the iteration has appended.

MaxRefreshSnapshots == 3

RefreshSessions == {1, 2}

\* The provider's answers to the two sessions: NVDA at 123, at 130, at 80
\* against a previous close of 100, or no data
RefreshQuotes ==
    {Quote(FALSE, 123, NoPrice, NoPrice), Quote(FALSE, NoPrice, 130, NoPrice),
     Quote(FALSE, 0, NoPrice, 80), Quote(TRUE, NoPrice, NoPrice, NoPrice)}

IdleRefresh ==
    [u |-> "idle", pending |-> <<>>, closed |-> FALSE, data |-> NoData, updated |-> 0,
     start |-> 0, snap |-> 0]

\* The store after an ingestion cycle that inserted the first feed entry
InitRefreshes ==
    /\ \E article \in {a \in Feed : a.article_url = "u1"} :
          articles = CollectOne(<<>>, ZeroCounts, article, TRUE,
                                GetTodaysDate(T0), T0).articles
    /\ snapshots = <<>>
    /\ now = T0
    /\ pc = "refreshes"
    /\ today = 0
    /\ left = 0
    /\ counts = ZeroCounts
    /\ pending = <<>>
    /\ closed = FALSE
    /\ updated_count = 0
    /\ lastEvent = NoEvent
    /\ cycle = NoCycle
    /\ ds = NoDs
    /\ call = NoCall
    /\ conc = [on |-> TRUE, r |-> [s \in RefreshSessions |-> IdleRefresh]]

RefreshesTick ==
    /\ pc = "refreshes"
    /\ \E t \in Instants : t > now /\ now' = t
    /\ UNCHANGED <<articles, snapshots, pc, today, left, counts, pending, closed,
                   updated_count, lastEvent, cycle, ds, call, conc>>

\* update_prices up to its loop, in session s
CycleStart(s) ==
    /\ pc = "refreshes"
    /\ conc.r[s].u = "idle"
    /\ LET rows == GetPendingArticles(articles)
       IN  /\ Len(snapshots) + Len(rows) <= MaxRefreshSnapshots
           /\ conc' = [conc EXCEPT !.r[s] = [u |-> "loop", pending |-> rows,
                                             closed |-> IsMarketClosed(now),
                                             data |-> NoData, updated |-> 0,
                                             start |-> now, snap |-> 0]]
    /\ UNCHANGED <<articles, snapshots, now, pc, today, left, counts, pending, closed,
                   updated_count, lastEvent, cycle, ds, call>>

\* get_price_data, then add_price_snapshot when there is data, in session s
CycleLookup(s) ==
    /\ pc = "refreshes"
    /\ conc.r[s].u = "loop"
    /\ conc.r[s].pending # <<>>
    /\ \E q \in RefreshQuotes :
          LET article == Head(conc.r[s].pending)
              price_data == GetPriceData(FALSE, <<100, 125>>, q, HourOf(now))
              gap == article.claimed_percentage - price_data.actual_movement_pct
          IN  IF ~price_data.ok
              THEN /\ conc' = [conc EXCEPT !.r[s].pending = Tail(@)]
                   /\ UNCHANGED snapshots
              ELSE /\ snapshots' = AddPriceSnapshot(snapshots, article.id,
                                        price_data.previous_close,
                                        price_data.current_price,
                                        price_data.actual_movement_pct, gap)
                   /\ conc' = [conc EXCEPT !.r[s].u = "status",
                                           !.r[s].data = price_data,
                                           !.r[s].snap = Len(snapshots) + 1]
    /\ UNCHANGED <<articles, now, pc, today, left, counts, pending, closed,
                   updated_count, lastEvent, cycle, ds, call>>

\* determine_status, then update_article_status, in session s
CycleStatus(s) ==
    /\ pc = "refreshes"
    /\ conc.r[s].u = "status"
    /\ LET article == Head(conc.r[s].pending)
           status == DetermineStatus(article.claimed_percentage,
                                     conc.r[s].data.actual_movement_pct,
                                     article.direction, conc.r[s].closed)
       IN  /\ articles' = UpdateArticleStatus(articles, article.id, status)
           /\ conc' = [conc EXCEPT !.r[s].u = "loop", !.r[s].data = NoData,
                                   !.r[s].pending = Tail(@),
                                   !.r[s].updated = @ + 1,
                                   !.r[s].snap = 0]
    /\ UNCHANGED <<snapshots, now, pc, today, left, counts, pending, closed,
                   updated_count, lastEvent, cycle, ds, call>>

\* update_prices returns in session s
CycleEnd(s) ==
    /\ pc = "refreshes"
    /\ conc.r[s].u = "loop"
    /\ conc.r[s].pending = <<>>
    /\ conc' = [conc EXCEPT !.r[s] = IdleRefresh]
    /\ UNCHANGED <<articles, snapshots, now, pc, today, left, counts, pending, closed,
                   updated_count, lastEvent, cycle, ds, call>>

NextRefreshes ==
    \/ RefreshesTick
    \/ \E s \in RefreshSessions : CycleStart(s)
    \/ \E s \in RefreshSessions : CycleLookup(s)
    \/ \E s \in RefreshSessions : CycleStatus(s)
    \/ \E s \in RefreshSessions : CycleEnd(s)

SpecRefreshes == InitRefreshes /\ [][NextRefreshes]_vars

----------------------------------------------------------------------------
\* get_previous_close and get_price_data on their own: histories of up to
\* MaxSessions sessions at every hour of the week

MaxSessions == 3

\* The closes of the last n sessions, oldest first, each session its own close
HistOf(n) == [k \in 1..n |-> 75 + 25 * k]

HoursOfWeek == {Day(d) + Clock(h, 0) : d \in 0..6, h \in 0..23}

\* The provider's quote when only the daily bar answers: the latest price is
\* the close of the last row of the history
DailyQuote(hist) ==
    Quote(FALSE, NoPrice, NoPrice, IF hist = <<>> THEN NoPrice ELSE hist[Len(hist)])

InitBaseline ==
    /\ articles = <<>>
    /\ snapshots = <<>>
    /\ now \in HoursOfWeek
    /\ pc = "idle"
    /\ today = 0
    /\ left = 0
    /\ counts = ZeroCounts
    /\ pending = <<>>
    /\ closed = FALSE
    /\ updated_count = 0
    /\ lastEvent = NoEvent
    /\ cycle = NoCycle
    /\ ds = NoDs
    /\ \E raised \in BOOLEAN, n \in 0..MaxSessions :
          call = [fn |-> "baseline", raised |-> raised, hist |-> HistOf(n),
                  done |-> FALSE, result |-> NoPrice, data |-> NoData]
    /\ conc = NoConc

CallGetPreviousClose ==
    /\ call.fn = "baseline"
    /\ ~call.done
    /\ call' = [call EXCEPT
                  !.done = TRUE,
                  !.result = GetPreviousClose(call.raised, call.hist, HourOf(now)),
                  !.data = GetPriceData(call.raised, call.hist, DailyQuote(call.hist),
                                        HourOf(now))]
    /\ UNCHANGED <<articles, snapshots, now, pc, today, left, counts, pending, closed,
                   updated_count, lastEvent, cycle, ds, conc>>

NextBaseline == CallGetPreviousClose

SpecBaseline == InitBaseline /\ [][NextBaseline]_vars

----------------------------------------------------------------------------
\* get_market_status on its own, at every minute of a week.  Its two readings
\* of the clock, its own and the one of is_market_closed, fall within the same
\* minute.

InitMarketStatus ==
    /\ articles = <<>>
    /\ snapshots = <<>>
    /\ now \in 0..(7 * MinutesPerDay - 1)
    /\ pc = "idle"
    /\ today = 0
    /\ left = 0
    /\ counts = ZeroCounts
    /\ pending = <<>>
    /\ closed = FALSE
    /\ updated_count = 0
    /\ lastEvent = NoEvent
    /\ cycle = NoCycle
    /\ ds = NoDs
    /\ call = [fn |-> "market_status", done |-> FALSE,
               result |-> [status |-> "", is_closed |-> FALSE, current_time |-> 0,
                           next_change |-> 0]]
    /\ conc = NoConc

CallGetMarketStatus ==
    /\ call.fn = "market_status"
    /\ ~call.done
    /\ call' = [call EXCEPT !.done = TRUE,
                            !.result = GetMarketStatus(now, IsMarketClosed(now))]
    /\ UNCHANGED <<articles, snapshots, now, pc, today, left, counts, pending, closed,
                   updated_count, lastEvent, cycle, ds, conc>>

NextMarketStatus == CallGetMarketStatus

SpecMarketStatus == InitMarketStatus /\ [][NextMarketStatus]_vars

----------------------------------------------------------------------------
\* The application kept running on a store of pending predictions: the clock
\* advances, refresh cycles are started again and again (the Refresh button,
\* the auto-refresh), every started cycle runs to its end, and the provider
\* has data for every ticker.  A refresh cycle that starts while the market is
\* open is counted against MaxSnapshots, since it can leave its predictions
\* PENDING; one that starts while the market is closed is not.

LiveQuotes == {Quote(FALSE, 123, NoPrice, NoPrice), Quote(FALSE, NoPrice, 130, NoPrice)}

\* The store after an ingestion cycle over the given candidates
RECURSIVE Ingested(_)
Ingested(cands) ==
    IF cands = <<>> THEN <<>>
    ELSE CollectOne(Ingested(SubSeq(cands, 1, Len(cands) - 1)), ZeroCounts,
                    cands[Len(cands)], TRUE, GetTodaysDate(T0), T0).articles

InitLive ==
    /\ \E a \in {x \in Feed : x.article_url = "u1"},
          b \in {x \in Feed : x.article_url = "u5"} :
          articles \in {Ingested(<<a>>), Ingested(<<a, b>>)}
    /\ snapshots = <<>>
    /\ now = Friday + Clock(9, 0)
    /\ pc = "idle"
    /\ today = 0
    /\ left = 0
    /\ counts = ZeroCounts
    /\ pending = <<>>
    /\ closed = FALSE
    /\ updated_count = 0
    /\ lastEvent = NoEvent
    /\ cycle = NoCycle
    /\ ds = NoDs
    /\ call = NoCall
    /\ conc = NoConc

StartUpdateLive ==
    IF IsMarketClosed(now)
    THEN StartUpdateWithin(Len(snapshots) + Len(articles))
    ELSE StartUpdateWithin(MaxSnapshots)

UpdateItemLive == UpdateItemWith({FALSE}, {<<100, 125>>}, LiveQuotes)

NextLive ==
    \/ Tick
    \/ StartUpdateLive
    \/ UpdateItemLive
    \/ EndUpdate

SpecLive ==
    /\ InitLive
    /\ [][NextLive]_vars
    /\ SF_vars(Tick)
    /\ SF_vars(StartUpdateLive)
    /\ WF_vars(UpdateItemLive)
    /\ WF_vars(EndUpdate)

----------------------------------------------------------------------------
\* Collection cycles against a store whose INSERT may fail

NextFaults ==
    \/ Tick
    \/ StartCollect
    \/ CollectItemFaulty
    \/ EndCollect

SpecFaults == Init /\ [][NextFaults]_vars

----------------------------------------------------------------------------
\* check_for_duplicates on its own: stores whose timestamps carry an offset,
\* carry none, or do not parse, and a new record of each kind

MaxDupRows == 2

DupRow(k, pct, ts) ==
    [ticker |-> "NVDA", claimed_percentage |-> pct, direction |-> "up",
     article_timestamp |-> ts, source_name |-> "Test Source",
     article_url |-> "u" \o ToString(k), headline |-> "h", status |-> "PENDING",
     is_duplicate |-> FALSE, collection_date |-> GetTodaysDate(T0)]

RECURSIVE DupStoresOf(_)
DupStoresOf(n) ==
    IF n = 0 THEN {<<>>}
    ELSE LET smaller == DupStoresOf(n - 1)
         IN  smaller \cup
             {Append(st, DupRow(n, pct, ts)) :
                  st \in {x \in smaller : Len(x) = n - 1},
                  pct \in {Pct(24), Pct(28)},
                  ts \in {T0, Naive(T0), BadTs}}

InitDuplicates ==
    /\ articles \in DupStoresOf(MaxDupRows)
    /\ snapshots = <<>>
    /\ now \in {T0 + 90, T0 + 600}
    /\ pc = "idle"
    /\ today = 0
    /\ left = 0
    /\ counts = ZeroCounts
    /\ pending = <<>>
    /\ closed = FALSE
    /\ updated_count = 0
    /\ lastEvent = NoEvent
    /\ cycle = NoCycle
    /\ ds = NoDs
    /\ \E ts \in {T0 + 60, Naive(T0 + 60), BadTs} :
          call = [fn |-> "duplicates", article_timestamp |-> ts, done |-> FALSE,
                  result |-> <<>>]
    /\ conc = NoConc

CallCheckForDuplicates ==
    /\ call.fn = "duplicates"
    /\ ~call.done
    /\ call' = [call EXCEPT !.done = TRUE,
                            !.result = CheckForDuplicates(articles, "NVDA", Pct(24),
                                           call.article_timestamp,
                                           GetTodaysDate(T0), now)]
    /\ UNCHANGED <<articles, snapshots, now, pc, today, left, counts, pending, closed,
                   updated_count, lastEvent, cycle, ds, conc>>

NextDuplicates == CallCheckForDuplicates

SpecDuplicates == InitDuplicates /\ [][NextDuplicates]_vars

----------------------------------------------------------------------------
\* determine_status on its own: every input of a grid around the thresholds

StatusSpan == 7

\* 0, and every multiple of HitThreshold up to StatusSpan of them, each with
\* its two neighbours, in both signs
StatusPcts ==
    {s * (m * HitThreshold + e) : s \in {0 - 1, 1}, m \in 0..StatusSpan, e \in {0 - 1, 0, 1}}

InitStatus ==
    /\ articles = <<>>
    /\ snapshots = <<>>
    /\ now = Friday + Clock(9, 0)
    /\ pc = "idle"
    /\ today = 0
    /\ left = 0
    /\ counts = ZeroCounts
    /\ pending = <<>>
    /\ closed = FALSE
    /\ updated_count = 0
    /\ lastEvent = NoEvent
    /\ cycle = NoCycle
    /\ \E c \in StatusPcts, a \in StatusPcts, d \in {"up", "down"}, m \in BOOLEAN :
          ds = [done |-> FALSE, claimed |-> c, actual |-> a, direction |-> d,
                closed |-> m, result |-> "PENDING"]
    /\ call = NoCall
    /\ conc = NoConc

CallDetermineStatus ==
    /\ ~ds.done
    /\ ds' = [ds EXCEPT !.done = TRUE,
                        !.result = DetermineStatus(ds.claimed, ds.actual,
                                                   ds.direction, ds.closed)]
    /\ UNCHANGED <<articles, snapshots, now, pc, today, left, counts, pending, closed,
                   updated_count, lastEvent, cycle, call, conc>>

NextStatus == CallDetermineStatus

SpecStatus == InitStatus /\ [][NextStatus]_vars

----------------------------------------------------------------------------
\* Properties

Terminal == {"HIT", "PARTIAL", "MISS"}

\* The classification rule as the design states it, on magnitudes and
\* directions; it takes no direction argument
Classify(claimed, actual, marketClosed) ==
    LET agree == (claimed > 0) <=> (actual > 0)
        gap == Abs(Abs(claimed) - Abs(actual))
    IN  CASE ~agree /\ marketClosed -> "MISS"
          [] agree /\ gap <= Pct(5) -> "HIT"
          [] agree /\ gap > Pct(5) /\ gap <= Pct(10) ->
                 IF marketClosed THEN "PARTIAL" ELSE "PENDING"
          [] OTHER -> IF marketClosed THEN "MISS" ELSE "PENDING"

\* C1: for every claimed percentage, actual percentage, direction argument and
\* marketClosed flag, determine_status returns the result of the seven-step
\* rule (an actual movement of 0 counts as down), whatever the direction
\* argument is.
C1_DetermineStatusIsRule ==
    ds.done => ds.result = Classify(ds.claimed, ds.actual, ds.closed)

\* C1 witness: a flat actual movement against an upward claim within the hit
\* gap, after the close, was classified (MISS: 0 counts as down).
C1_Witness ==
    /\ ds.done /\ ds.closed
    /\ ds.claimed = HitThreshold /\ ds.actual = 0 /\ ds.direction = "down"
    /\ ds.result = "MISS"

\* Steps of the two loops, told by the position before and after
IsCollectItem == pc = "collect" /\ left' = left - 1
IsUpdateItem == pc = "update" /\ pc' = "update"
IsStartUpdate == pc = "idle" /\ pc' = "update"

Urls(arts) == {arts[i].article_url : i \in 1..Len(arts)}
BatchIds(rows) == {rows[k].id : k \in 1..Len(rows)}

\* C2: under any sequence of ingestion and refresh cycles run to completion,
\* a stored status of HIT, PARTIAL or MISS never changes again.
C2_TerminalIsFinal ==
    [][\A i \in 1..Len(articles) :
          articles[i].status \in Terminal
              => /\ i <= Len(articles')
                 /\ articles'[i].status = articles[i].status]_vars

\* C2 witness: a refresh cycle priced a pending prediction while another
\* stored prediction, already terminal, was not in its batch.
C2_Witness ==
    /\ pc = "update"
    /\ lastEvent.kind = "priced"
    /\ \E i \in 1..Len(articles) :
          /\ articles[i].status \in Terminal
          /\ i \notin Range(cycle.batch)

\* The session of calendar day `date` has closed at instant t
SessionClosed(date, t) == t >= Day(date) + MarketCloseMinute

\* C3 as stated: a status leaves PENDING only in a refresh cycle that runs
\* once the market has closed for the session of the prediction's collection
\* date (never while the market is open, never before that session opened).
C3_TerminalOnlyAfterSessionClose ==
    [][\A i \in 1..Len(articles) :
          (articles[i].status = "PENDING" /\ articles'[i].status # "PENDING")
              => /\ IsUpdateItem
                 /\ SessionClosed(articles[i].collection_date, cycle.start)]_vars

\* Market-local instant t is outside the trading session: a weekend, before
\* 09:30, or at or after 16:00
OutsideSession(t) ==
    \/ Weekday(t) \in {5, 6}
    \/ MinuteOfDay(t) < Clock(9, 30)
    \/ MinuteOfDay(t) >= Clock(16, 0)

\* C3 amended: a prediction is PENDING when inserted and its status leaves
\* PENDING only in a refresh cycle; PARTIAL and MISS are written only by a
\* refresh cycle that started outside the trading session (weekend, before
\* 09:30 or from 16:00 on, the pre-market of the collection day included),
\* while HIT is written by any refresh cycle, the market open or not.
C3_TerminalOnlyInRefresh ==
    [][/\ \A i \in 1..Len(articles') :
             i > Len(articles) => articles'[i].status = "PENDING"
       /\ \A i \in 1..Len(articles) :
             (articles[i].status = "PENDING" /\ articles'[i].status # "PENDING")
                 => /\ IsUpdateItem
                    /\ i = Head(pending).id
                    /\ articles'[i].status \in {"PARTIAL", "MISS"}
                           => OutsideSession(cycle.start)]_vars

\* C3 witness: a refresh cycle started while the market was open wrote HIT.
C3_Witness ==
    /\ pc = "update"
    /\ lastEvent.kind = "priced"
    /\ ~OutsideSession(cycle.start)
    /\ articles[lastEvent.id].status = "HIT"

\* C4: an insert whose article_url is already stored creates no row and
\* answers None, leaving every row and the row count as they were; the store
\* holds one prediction per article_url.
C4_UrlIsIdempotencyKey ==
    [][/\ (IsCollectItem /\ lastEvent'.valid
              /\ lastEvent'.cand.article_url \in Urls(articles))
          => (articles' = articles /\ lastEvent'.id = 0)
       /\ \A i, j \in 1..Len(articles') :
             articles'[i].article_url = articles'[j].article_url => i = j]_vars

\* C4 witness: a valid candidate collided with the URL of a stored row.
C4_Witness ==
    /\ lastEvent.kind = "urldup"
    /\ lastEvent.valid
    /\ lastEvent.cand.article_url \in Urls(articles)
    /\ Len(articles) = 1

\* The stored predictions that are near a claim (ticker, pct, ts) collected on
\* day `date`: same ticker, same collection date, percentages within 3.0
\* points and timestamps within 2 hours, both inclusive
NearIds(arts, ticker, pct, ts, date) ==
    {i \in 1..Len(arts) :
        /\ arts[i].ticker = ticker
        /\ arts[i].collection_date = date
        /\ Abs(arts[i].claimed_percentage - pct) <= Pct(3)
        /\ Abs(ts - arts[i].article_timestamp) <= 2 * 60}

\* The store as it was before the last loop iteration of an ingestion cycle
StoreBefore == IF lastEvent.kind = "added"
               THEN SubSeq(articles, 1, lastEvent.id - 1)
               ELSE articles

\* C5: check_for_duplicates returns exactly the ids of the stored predictions
\* with the same ticker, the same collection_date, a claimed percentage within
\* 3.0 points and a timestamp within 2 hours, both bounds inclusive and both
\* required.
C5_DuplicatesAreNearIds ==
    lastEvent.checked
        => /\ Range(lastEvent.dups)
                = NearIds(StoreBefore, lastEvent.cand.ticker,
                          lastEvent.cand.claimed_percentage,
                          lastEvent.cand.article_timestamp, today)
           /\ Len(lastEvent.dups) = Cardinality(Range(lastEvent.dups))

\* C5 witness: the check returned a stored row exactly 3.0 points and exactly
\* 2 hours away from the candidate.
C5_Witness ==
    /\ lastEvent.checked
    /\ \E i \in Range(lastEvent.dups) :
          /\ Abs(articles[i].claimed_percentage - lastEvent.cand.claimed_percentage) = Pct(3)
          /\ Abs(articles[i].article_timestamp - lastEvent.cand.article_timestamp) = 2 * 60

\* C6: in an ingestion cycle a candidate with a valid ticker and a new
\* article_url is always inserted, near-duplicates or not; its is_duplicate
\* flag is true exactly when the stored predictions near it just before its
\* insertion were not none, and it stays so; the earlier rows remain.
C6_InsertedAndFlagged ==
    [][/\ (IsCollectItem /\ lastEvent'.valid
              /\ lastEvent'.cand.article_url \notin Urls(articles))
          => /\ Len(articles') = Len(articles) + 1
             /\ \A i \in 1..Len(articles) : articles'[i] = articles[i]
             /\ articles'[Len(articles')].article_url = lastEvent'.cand.article_url
             /\ articles'[Len(articles')].claimed_percentage
                    = lastEvent'.cand.claimed_percentage
             /\ articles'[Len(articles')].collection_date = today
       /\ \A i \in 1..Len(articles') :
             articles'[i].is_duplicate
                 <=> NearIds(SubSeq(articles', 1, i - 1), articles'[i].ticker,
                             articles'[i].claimed_percentage,
                             articles'[i].article_timestamp,
                             articles'[i].collection_date) # {}]_vars

\* C6 witness: a candidate near a stored prediction was inserted and flagged,
\* and the earlier prediction is still stored, unflagged.
C6_Witness ==
    /\ lastEvent.kind = "added"
    /\ lastEvent.dups # <<>>
    /\ articles[lastEvent.id].is_duplicate
    /\ \E i \in Range(lastEvent.dups) : ~articles[i].is_duplicate

\* C7 as stated: for each ticker and collection_date, among the predictions
\* whose claimed percentages are within 3.0 points of each other at most one
\* is not marked duplicate.
C7_OnePrimaryPerWindow ==
    \A i, j \in 1..Len(articles) :
        (/\ i < j
         /\ articles[i].ticker = articles[j].ticker
         /\ articles[i].collection_date = articles[j].collection_date
         /\ Abs(articles[i].claimed_percentage - articles[j].claimed_percentage) <= Pct(3))
            => (articles[i].is_duplicate \/ articles[j].is_duplicate)

\* C7 amended: for each ticker and collection_date, of two stored predictions
\* whose claimed percentages are within 3.0 points AND whose article
\* timestamps are within 2 hours of each other, the one inserted later is
\* marked duplicate; so among predictions pairwise that near at most one, the
\* first inserted, is not marked.
C7_OnePrimaryPerNearGroup ==
    \A i, j \in 1..Len(articles) :
        (/\ i < j
         /\ articles[i].ticker = articles[j].ticker
         /\ articles[i].collection_date = articles[j].collection_date
         /\ Abs(articles[i].claimed_percentage - articles[j].claimed_percentage) <= Pct(3)
         /\ Abs(articles[i].article_timestamp - articles[j].article_timestamp) <= 2 * 60)
            => articles[j].is_duplicate

\* C7 witness: two predictions of one ticker and day, 3.0 points and 2 hours
\* apart; the first is the primary record, the second is marked.
C7_Witness ==
    \E i, j \in 1..Len(articles) :
        /\ i < j
        /\ articles[i].ticker = articles[j].ticker
        /\ articles[i].collection_date = articles[j].collection_date
        /\ Abs(articles[i].claimed_percentage - articles[j].claimed_percentage) = Pct(3)
        /\ Abs(articles[i].article_timestamp - articles[j].article_timestamp) = 2 * 60
        /\ ~articles[i].is_duplicate
        /\ articles[j].is_duplicate

SnapshotsOf(snaps, id, from) ==
    {k \in (from + 1)..Len(snaps) : snaps[k].article_id = id}

\* C8: in a refresh cycle, when the oracle has no data for a pending
\* prediction's ticker, the prediction is skipped: its status stays PENDING,
\* no snapshot is appended, nothing else is recorded on it, and the next
\* refresh cycle selects it again (every PENDING row is in the batch a
\* refresh cycle starts with).
C8_NoDataSkips ==
    [][/\ (IsUpdateItem /\ lastEvent'.unavailable)
          => /\ articles' = articles
             /\ snapshots' = snapshots
             /\ articles'[Head(pending).id].status = "PENDING"
             /\ pending' = Tail(pending)
       /\ IsStartUpdate
          => \A i \in 1..Len(articles) :
                articles[i].status = "PENDING" => i \in BatchIds(pending')]_vars

\* C8 witness: a refresh cycle skipped a prediction that an earlier refresh
\* cycle had already priced and left PENDING.
C8_Witness ==
    /\ pc = "update"
    /\ lastEvent.kind = "skip"
    /\ lastEvent.unavailable
    /\ articles[lastEvent.id].status = "PENDING"
    /\ SnapshotsOf(snapshots, lastEvent.id, 0) # {}
    /\ SnapshotsOf(snapshots, lastEvent.id, cycle.base) = {}

\* The ids of the batch that the running refresh cycle has visited
Visited == Range(cycle.batch) \ BatchIds(pending)

\* C9: a lookup failure never aborts a refresh cycle: every pending prediction
\* of the batch is visited, and each one the oracle has data for gets exactly
\* one snapshot appended and its status reclassified, whatever happened to
\* the others and wherever it stands in the batch.
C9_FailureDoesNotAbort ==
    pc = "update"
        => /\ Visited = cycle.data \cup cycle.nodata
           /\ \A k \in 1..Len(pending) :
                 pending[k].id = cycle.batch[Len(cycle.batch) - Len(pending) + k]
           /\ \A i \in cycle.nodata \ cycle.data :
                 SnapshotsOf(snapshots, i, cycle.base) = {}
           /\ \A i \in cycle.data :
                 /\ Cardinality(SnapshotsOf(snapshots, i, cycle.base)) = 1
                 /\ \A k \in SnapshotsOf(snapshots, i, cycle.base) :
                       articles[i].status
                           = Classify(articles[i].claimed_percentage,
                                      snapshots[k].actual_movement_pct, closed)

\* C9 witness: the loop has finished, the first prediction of the batch failed
\* lookup and the second was priced.
C9_Witness ==
    /\ pc = "update"
    /\ pending = <<>>
    /\ Len(cycle.batch) = 2
    /\ cycle.batch[1] \in cycle.nodata
    /\ cycle.batch[2] \in cycle.data
    /\ Cardinality(SnapshotsOf(snapshots, cycle.batch[2], cycle.base)) = 1

\* C10: in an ingestion cycle a candidate whose ticker fails validation is
\* dropped: no row is created, no duplicate check or flagging is done for it,
\* and only the invalid count goes up.
C10_InvalidTickerDropped ==
    [][(IsCollectItem /\ ~lastEvent'.valid)
          => /\ articles' = articles
             /\ ~lastEvent'.checked
             /\ lastEvent'.dups = <<>>
             /\ counts' = [counts EXCEPT !.invalid = @ + 1]]_vars

\* C10 witness: a candidate that would have been a near-duplicate of a stored
\* prediction failed validation and was counted invalid.
C10_Witness ==
    /\ pc = "collect"
    /\ lastEvent.kind = "invalid"
    /\ ~lastEvent.valid
    /\ counts.invalid = 1
    /\ lastEvent.cand.article_url \notin Urls(articles)
    /\ NearIds(articles, lastEvent.cand.ticker, lastEvent.cand.claimed_percentage,
               lastEvent.cand.article_timestamp, today) # {}

\* C11 as stated: a single refresh cycle processes at most MAX_TRACKED_STOCKS
\* pending predictions, the rest being left for a later cycle.
C11_BatchIsBounded ==
    pc = "update" => Cardinality(Visited) <= MAX_TRACKED_STOCKS

\* C12: however the statements of an ingestion cycle and of a refresh cycle
\* interleave, no write is lost: every row's status is the last one a refresh
\* cycle wrote to it (PENDING if none), and every row's is_duplicate is what
\* the ingestion cycle decided for it, once the ingestion cycle has written
\* its decision.
C12_NoLostWrite ==
    conc.on =>
        /\ Len(conc.decided) = Len(articles)
        /\ Len(conc.applied) = Len(articles)
        /\ \A i \in 1..Len(articles) :
              /\ articles[i].status = conc.applied[i]
              /\ (conc.c = "mark" /\ conc.id = i)
                     \/ articles[i].is_duplicate = conc.decided[i]

\* C12 witness: a row was inserted, reclassified by the refresh cycle before
\* the ingestion cycle flagged it, and then flagged; it holds both writes.
C12_Witness ==
    /\ conc.on /\ conc.raced
    /\ \E i \in 1..Len(articles) :
          articles[i].is_duplicate /\ articles[i].status = "HIT"

\* A hedge or stale-reference phrase, as the design lists them, stands
\* somewhere in the text
HasWord(text, ws) ==
    \E i \in 1..Len(text) : text[i].k = "word" /\ Lower(text[i].w) \in ws
HasPair(text, ws, vs) ==
    \E i \in 1..(Len(text) - 1) :
        /\ text[i].k = "word" /\ Lower(text[i].w) \in ws
        /\ text[i + 1].k = "word" /\ Lower(text[i + 1].w) \in vs
HasHedge(text) ==
    \/ HasWord(text, {"could", "might", "may", "yesterday"})
    \/ HasPair(text, {"expected"}, {"to"})
    \/ HasPair(text, {"analyst", "analysts"}, {"predict"})
    \/ HasPair(text, {"price"}, {"target"})
    \/ HasPair(text, {"last"}, {"week", "month", "quarter"})
    \/ HasPair(text, {"surged", "dropped"}, {"last"})

\* C13 as stated: for every text that contains a hedge or stale-reference
\* phrase anywhere (could/might/may, expected to, analysts predict, price
\* target, yesterday, last week/month/quarter, surged last/dropped last),
\* extract_ticker_and_percentage returns None, whatever claim the text holds.
C13_HedgeVetoesText ==
    (call.fn = "extract" /\ call.done /\ HasHedge(call.text)) => ~call.result.ok

\* The match of pattern k at token i is a claim of at least 20 percent
Qualifies(text, k, i) ==
    /\ k \in 1..Len(MovementPatterns)
    /\ i \in 1..Len(text)
    /\ MatchAt(text, k, i)
    /\ text[i + MatchLen(k) - 1].n >= Pct(20)

QualifyingMatches(text) ==
    {m \in (1..Len(MovementPatterns)) \X (1..Len(text)) : Qualifies(text, m[1], m[2])}

\* Match m comes before match n: an earlier template, or the same template
\* further left
Before(m, n) == m[1] < n[1] \/ (m[1] = n[1] /\ m[2] < n[2])

\* C14: for a text with no exclusion phrase, extract_ticker_and_percentage
\* returns the claim of the first qualifying match, templates taken in their
\* fixed order and the matches of a template left to right, matches below 20
\* percent being skipped; it returns None exactly when no match of any
\* template has a percentage of at least 20.
C14_FirstQualifyingMatch ==
    (call.fn = "extract" /\ call.done /\ ~Excluded(call.text)) =>
        LET Q == QualifyingMatches(call.text)
        IN  IF Q = {} THEN ~call.result.ok
            ELSE \E m \in Q :
                    /\ \A n \in Q : ~Before(n, m)
                    /\ call.result = ClaimOf(call.text, m[1], m[2])

\* C14 witness: an up-verb match below 20 percent came first, a down-verb
\* match of 22 percent second and an up-verb match of 25 percent last; the
\* call returned the last one, (AAPL, 25.00, up).
C14_Witness ==
    /\ call.fn = "extract" /\ call.done
    /\ call.text = <<Word("TSLA"), Word("surges"), Percent(Pct(10)),
                     Word("XYZ"), Word("plunges"), Percent(Pct(22)),
                     Word("AAPL"), Word("surges"), Percent(Pct(25))>>
    /\ call.result = [ok |-> TRUE, ticker |-> "AAPL", percentage |-> Pct(25),
                      direction |-> "up"]

\* A claim is well formed: a ticker of 2 to 5 upper-case letters, a magnitude
\* of at least 20 percent, a direction that agrees with the sign
WellFormed(ticker, percentage, direction) ==
    /\ Letters(ticker) \in 2..5
    /\ Upper(ticker) = ticker
    /\ Lower(ticker) # ticker
    /\ Abs(percentage) >= Pct(20)
    /\ direction \in {"up", "down"}
    /\ direction = "up" <=> percentage > 0
    /\ direction = "down" <=> percentage < 0

\* Every claim extract_ticker_and_percentage returns for a text is well formed
ExtractedWellFormed ==
    \A text \in Texts :
        LET r == ExtractTickerAndPercentage(text)
        IN  r.ok => WellFormed(r.ticker, r.percentage, r.direction)

\* C15: every claim returned by extract_ticker_and_percentage, and so every
\* prediction the ingestion cycle stores, has a ticker of 2 to 5 upper-case
\* letters, a claimed percentage of magnitude at least 20.0, and a direction
\* in {up, down} that agrees with the sign of the percentage.
C15_ClaimsWellFormed ==
    /\ ExtractedWellFormed
    /\ \A i \in 1..Len(articles) :
          WellFormed(articles[i].ticker, articles[i].claimed_percentage,
                     articles[i].direction)

\* C15 witness: the ingestion cycle stored a claim extracted from a down-verb
\* text, with a negative percentage and direction down, next to an upward one.
C15_Witness ==
    /\ Len(articles) = 2
    /\ articles[1].direction = "up" /\ articles[1].claimed_percentage = Pct(24)
    /\ articles[2].direction = "down" /\ articles[2].claimed_percentage = 0 - Pct(22)
    /\ articles[2].ticker = "AAPL"

\* The stores the statistics are computed on, besides the reachable ones:
\* every store of at most MaxStatRows rows, each collected on one of two days
\* and in one of the four statuses
MaxStatRows == 4

StatRow(k, date, status) ==
    [ticker |-> "NVDA", claimed_percentage |-> Pct(24), direction |-> "up",
     article_timestamp |-> T0, source_name |-> "Yahoo Finance",
     article_url |-> "u" \o ToString(k), headline |-> "h", status |-> status,
     is_duplicate |-> k > 1, collection_date |-> date]

RECURSIVE StoresOf(_)
StoresOf(n) ==
    IF n = 0 THEN {<<>>}
    ELSE LET smaller == StoresOf(n - 1)
         IN  smaller \cup
             {Append(st, StatRow(n, d, status)) :
                  st \in {x \in smaller : Len(x) = n - 1},
                  d \in {GetTodaysDate(Friday), GetTodaysDate(Saturday)},
                  status \in {"PENDING", "HIT", "PARTIAL", "MISS"}}

\* The number of rows of arts collected on `date` whose status is in statuses
RECURSIVE CountRows(_, _, _)
CountRows(arts, date, statuses) ==
    IF arts = <<>> THEN 0
    ELSE (IF Head(arts).collection_date = date /\ Head(arts).status \in statuses
          THEN 1 ELSE 0) + CountRows(Tail(arts), date, statuses)

StatsRight(arts, date) ==
    LET st == GetDailyStats(arts, date)
    IN  /\ st.total_predictions
              = CountRows(arts, date, {"PENDING", "HIT", "PARTIAL", "MISS"})
        /\ st.hits = CountRows(arts, date, {"HIT"})
        /\ st.misses = CountRows(arts, date, {"MISS"})
        /\ st.partials = CountRows(arts, date, {"PARTIAL"})
        /\ st.pending = CountRows(arts, date, {"PENDING"})
        /\ st.total_predictions = st.hits + st.misses + st.partials + st.pending
        /\ st.hit_rate.den > 0
        /\ IF st.total_predictions = 0 THEN st.hit_rate.num = 0
           ELSE st.hit_rate.num * st.total_predictions = st.hits * 100 * st.hit_rate.den

StatDates == {GetTodaysDate(t) : t \in Instants} \cup {GetTodaysDate(Day(0))}

StatsRightOnStores ==
    /\ \A st \in StoresOf(MaxStatRows), d \in StatDates : StatsRight(st, d)
    /\ LET d == GetTodaysDate(Friday)
           four == <<StatRow(1, d, "HIT"), StatRow(2, d, "MISS"),
                     StatRow(3, d, "HIT"), StatRow(4, d, "PENDING")>>
       IN  /\ four \in StoresOf(MaxStatRows)
           /\ GetDailyStats(four, d).hit_rate = Ratio(200, 4)

\* C16: get_daily_stats(date) counts the predictions whose collection_date is
\* date: total, hits, misses, partials and pending are their number overall
\* and in status HIT, MISS, PARTIAL and PENDING; hit_rate is hits / total * 100
\* and 0 when total is 0; in every store that cycles can produce
\* total = hits + misses + partials + pending.
C16_DailyStatsCount ==
    /\ StatsRightOnStores
    /\ \A d \in StatDates : StatsRight(articles, d)

\* C16 witness: the store holds a HIT collected on the Friday and a pending
\* prediction collected on the Saturday; the Friday's statistics count one
\* prediction, one hit and a hit rate of 100.
C16_Witness ==
    /\ Len(articles) = 2
    /\ articles[1].collection_date = GetTodaysDate(Friday)
    /\ articles[1].status = "HIT"
    /\ articles[2].collection_date = GetTodaysDate(Saturday)
    /\ articles[2].status = "PENDING"
    /\ GetDailyStats(articles, GetTodaysDate(Friday)).total_predictions = 1
    /\ GetDailyStats(articles, GetTodaysDate(Friday)).hit_rate = Ratio(100, 1)

\* C17: is_market_closed is true exactly when the market-local time is on a
\* Saturday or Sunday, or before 09:30, or at or after 16:00; it is false on
\* every weekday from 09:30 inclusive to 16:00 exclusive.
C17_ClosedOutsideSession ==
    (call.fn = "closed" /\ call.done) =>
        /\ call.result <=> \/ now \div (24 * 60) \in {5, 6}
                           \/ now % (24 * 60) < 9 * 60 + 30
                           \/ now % (24 * 60) >= 16 * 60
        /\ (/\ now \div (24 * 60) \in 0..4
            /\ now % (24 * 60) >= 9 * 60 + 30
            /\ now % (24 * 60) < 16 * 60) => ~call.result

\* C17 witness: is_market_closed was asked at 09:30 on the Friday and
\* answered false.
C17_Witness ==
    /\ call.fn = "closed" /\ call.done
    /\ now = Friday + Clock(9, 30)
    /\ ~call.result

\* C18: calculate_movement returns ((current_price - previous_close) /
\* previous_close) * 100 rounded to 2 decimals, i.e. a hundredth nearest to
\* the quotient, for every previous_close other than 0 (100 and 125 give
\* 25.00), and 0 when previous_close is 0.
C18_MovementRounded ==
    (call.fn = "movement" /\ call.done) =>
        /\ call.previous_close = 0 => call.result = 0
        /\ call.previous_close # 0 =>
              2 * Abs(call.result * call.previous_close
                          - (call.current_price - call.previous_close) * 10000)
                  <= Abs(call.previous_close)
        /\ (call.previous_close = 100 /\ call.current_price = 125) => call.result = 2500

\* C18 witness: the movement from 3 to 5 was computed, 66.67 percent: the
\* quotient 66.666... rounded up.
C18_Witness ==
    /\ call.fn = "movement" /\ call.done
    /\ call.previous_close = 3 /\ call.current_price = 5
    /\ call.result = 6667

\* C19 as stated: a store failure during add_article is not given the outcome
\* of a URL collision and is not counted as a duplicate: it ends the
\* collection cycle as a hard failure.
C19_FaultEndsCycle ==
    [][lastEvent'.kind = "fault" =>
           /\ counts'.duplicate = counts.duplicate
           /\ pc' # "collect"]_vars

\* C20 as stated: in check_for_duplicates an unparseable timestamp never
\* produces a duplicate: when the new record's timestamp cannot be parsed the
\* returned list is empty, and a stored record whose timestamp cannot be
\* parsed is never returned, while the other stored records are still
\* evaluated.
C20_UnparseableNeverDuplicate ==
    (call.fn = "duplicates" /\ call.done) =>
        /\ ~Parses(call.article_timestamp) => call.result = <<>>
        /\ \A k \in 1..Len(call.result) :
              Parses(articles[call.result[k]].article_timestamp)
        /\ \A i \in 1..Len(articles) :
              (/\ call.article_timestamp >= 0
               /\ articles[i].article_timestamp >= 0
               /\ articles[i].claimed_percentage = Pct(24))
                  => \E k \in 1..Len(call.result) : call.result[k] = i

\* C21 as stated: every refresh cycle re-runs classification on the
\* predictions whose stored status is HIT: they are in the batch of the cycle.
C21_HitIsReevaluated ==
    pc = "update"
        => \A i \in 1..Len(articles) :
              articles[i].status = "HIT" => i \in Range(cycle.batch)

\* C21 amended: a refresh cycle re-runs classification only on the
\* predictions whose stored status is PENDING when it starts: a prediction is
\* in the batch of the running cycle exactly when it is still PENDING or this
\* cycle has reclassified it, and a prediction stored as HIT when the cycle
\* starts, also one that reached HIT while the market was open, is not in the
\* batch and keeps status and snapshots.
C21_OnlyPendingReevaluated ==
    pc = "update"
        => \A i \in 1..Len(articles) :
              /\ i \in Range(cycle.batch)
                    <=> (articles[i].status = "PENDING" \/ i \in cycle.data)
              /\ i \notin Range(cycle.batch)
                    => SnapshotsOf(snapshots, i, cycle.base) = {}

\* C21 witness: a refresh cycle runs while the market is open and a stored
\* HIT prediction, priced by an earlier cycle, is not in its batch.
C21_Witness ==
    /\ pc = "update"
    /\ ~closed
    /\ \E i \in 1..Len(articles) :
          /\ articles[i].status = "HIT"
          /\ i \notin Range(cycle.batch)
          /\ SnapshotsOf(snapshots, i, 0) # {}

\* C22 as stated: when two refresh cycles run concurrently, a status written
\* as HIT, PARTIAL or MISS by one of them is never overwritten by the other
\* with PENDING or with a different terminal value.
C22_ConcurrentTerminalKept ==
    [][\A s \in RefreshSessions :
          (conc.r[s].u = "status" /\ conc'.r[s].u = "loop")
              => LET i == Head(conc.r[s].pending).id
                 IN  articles[i].status \in Terminal
                         => articles'[i].status = articles[i].status]_vars

\* m is ((current - previous) / previous) x 100 rounded to two decimals, in
\* hundredths: the multiple of 0.01 nearest to the quotient, the even one of
\* two equally near; 0 for a previous close of 0
IsMovement(m, previous, current) ==
    IF previous = 0 THEN m = 0
    ELSE LET twice == 2 * (100 * PctScale * (current - previous) - m * previous)
         IN  /\ Abs(twice) <= Abs(previous)
             /\ Abs(twice) = Abs(previous) => m % 2 = 0

\* C23: every price snapshot a refresh cycle stores has actual_movement_pct =
\* movement(previous_close, current_price) and gap = claimed_percentage of its
\* prediction minus actual_movement_pct, with its sign; and the status the
\* same iteration writes is the classification of the claimed percentage and
\* that snapshot's actual_movement_pct under the market flag sampled once, at
\* the start of the cycle.
C23_SnapshotAndStatusAgree ==
    [][/\ \A k \in 1..Len(snapshots') :
             /\ IsMovement(snapshots'[k].actual_movement_pct,
                           snapshots'[k].previous_close, snapshots'[k].current_price)
             /\ snapshots'[k].gap
                    = articles'[snapshots'[k].article_id].claimed_percentage
                          - snapshots'[k].actual_movement_pct
       /\ \A s \in RefreshSessions :
             (conc.r[s].u = "status" /\ conc'.r[s].u = "loop")
                 => LET snap == snapshots[conc.r[s].snap]
                    IN  articles'[snap.article_id].status
                            = Classify(articles[snap.article_id].claimed_percentage,
                                       snap.actual_movement_pct,
                                       IsMarketClosed(conc.r[s].start))]_vars

\* C23 witness: a cycle that started while the market was open stored a
\* snapshot with a negative gap, and the clock has passed the close before
\* its status is written.
C23_Witness ==
    /\ pc = "refreshes"
    /\ \E s \in RefreshSessions :
          /\ conc.r[s].u = "status"
          /\ ~IsMarketClosed(conc.r[s].start)
          /\ IsMarketClosed(now)
          /\ snapshots[conc.r[s].snap].gap < 0

\* The fields of a prediction that are written at insertion only
Inserted(row) ==
    [ticker |-> row.ticker, claimed_percentage |-> row.claimed_percentage,
     direction |-> row.direction, article_timestamp |-> row.article_timestamp,
     source_name |-> row.source_name, article_url |-> row.article_url,
     headline |-> row.headline, collection_date |-> row.collection_date]

\* C24: across ingestion and refresh cycles no prediction and no snapshot is
\* deleted and no stored snapshot is modified: both tables only grow by
\* appending, and of a stored prediction only status and is_duplicate ever
\* change.
C24_AppendOnly ==
    [][/\ Len(articles') >= Len(articles)
       /\ Len(snapshots') >= Len(snapshots)
       /\ SubSeq(snapshots', 1, Len(snapshots)) = snapshots
       /\ \A i \in 1..Len(articles) : Inserted(articles'[i]) = Inserted(articles[i])
       /\ \A k \in (Len(snapshots) + 1)..Len(snapshots') :
             snapshots'[k].article_id \in 1..Len(articles)]_vars

\* C24 witness: the store holds two snapshots, and a prediction flagged as
\* duplicate at insertion has been made terminal by the refresh cycle that
\* appended the second one.
C24_Witness ==
    /\ lastEvent.kind = "priced"
    /\ Len(snapshots) = 2
    /\ articles[lastEvent.id].is_duplicate
    /\ articles[lastEvent.id].status \in Terminal

\* C25: is_duplicate is set only on the record being inserted, in the
\* ingestion cycle that inserts it; the flag of a stored prediction never
\* changes afterwards, neither cleared nor set, whatever is inserted later, so
\* the first-inserted record of a duplicate group stays unflagged.
C25_FlagSetAtInsertOnly ==
    [][/\ \A i \in 1..Len(articles) :
             articles'[i].is_duplicate = articles[i].is_duplicate
       /\ \A i \in (Len(articles) + 1)..Len(articles') :
             articles'[i].is_duplicate
                 => /\ IsCollectItem
                    /\ i = lastEvent'.id
                    /\ lastEvent'.dups # <<>>
                    /\ \A j \in Range(lastEvent'.dups) : j < i
       /\ articles' # <<>> => ~articles'[1].is_duplicate]_vars

\* C25 witness: a refresh cycle has priced the first prediction, a later
\* ingestion cycle inserted and flagged a near-identical one, and the first
\* is still unflagged.
C25_Witness ==
    /\ lastEvent.kind = "added"
    /\ lastEvent.id = 2
    /\ lastEvent.dups = <<1>>
    /\ articles[2].is_duplicate
    /\ ~articles[1].is_duplicate
    /\ SnapshotsOf(snapshots, 1, 0) # {}

C27_BaselineIsEarlierSession ==
    (call.fn = "baseline" /\ call.done /\ ~call.raised /\ Len(call.hist) >= 2) =>
        LET sessions == Len(call.hist)
        IN  /\ \E k \in 1..(sessions - 1) : call.result = call.hist[k]
            /\ call.result # call.hist[sessions]
            /\ call.data.ok
            /\ IsMovement(call.data.actual_movement_pct,
                          call.hist[sessions - 1], call.hist[sessions])

\* The weekday opens, 09:30 Monday to Friday, of this week and the next
WeekdayOpens ==
    {d * 24 * 60 + 9 * 60 + 30 : d \in {0, 1, 2, 3, 4, 7, 8, 9, 10, 11}}

\* C28: get_market_status labels Saturday and Sunday Weekend, a weekday
\* before 09:30 Pre-Market, a weekday at or after 16:00 After-Hours and the
\* rest Market Open (the label is Market Open iff is_closed is false); its
\* next_change is strictly later than now and is the nearest boundary that
\* follows: today's 16:00 when open, otherwise the next 09:30 of a weekday
\* (Monday 09:30 from Friday after-hours and from the weekend).
C28_MarketStatus ==
    (call.fn = "market_status" /\ call.done) =>
        LET day == now \div (24 * 60)
            minute == now % (24 * 60)
            r == call.result
        IN  /\ r.status = CASE day \in {5, 6} -> "Weekend"
                            [] day \in 0..4 /\ minute < 9 * 60 + 30 -> "Pre-Market"
                            [] day \in 0..4 /\ minute >= 16 * 60 -> "After-Hours"
                            [] OTHER -> "Market Open"
            /\ r.status = "Market Open" <=> ~r.is_closed
            /\ r.next_change > now
            /\ r.status = "Market Open" => r.next_change = day * 24 * 60 + 16 * 60
            /\ r.status # "Market Open"
                  => /\ r.next_change \in WeekdayOpens
                     /\ \A b \in WeekdayOpens : b > now => r.next_change <= b
            /\ (r.status = "Weekend" \/ (r.status = "After-Hours" /\ day = 4))
                  => r.next_change = 7 * 24 * 60 + 9 * 60 + 30

\* C28 witness: asked at 16:00 on the Friday, get_market_status answered
\* After-Hours with the next change on Monday at 09:30.
C28_Witness ==
    /\ call.fn = "market_status" /\ call.done
    /\ now = Friday + Clock(16, 0)
    /\ call.result.status = "After-Hours"
    /\ call.result.next_change = Day(7) + Clock(9, 30)

\* C29: determine_status never answers PENDING when the market flag is true,
\* so a refresh cycle that runs while the market is closed leaves every
\* prediction it has priced HIT, PARTIAL or MISS; and when refresh cycles keep
\* running, the provider keeps returning data and the market is closed at one
\* of them, every pending prediction is eventually finalized.
C29_EventuallyFinal ==
    /\ [](pc = "update" /\ closed
             => \A i \in cycle.data : articles[i].status \in Terminal)
    /\ \A i \in 1..MaxArticles :
          (i <= Len(articles) /\ articles[i].status = "PENDING")
              ~> (i <= Len(articles) /\ articles[i].status \in Terminal)

\* C29 witness: a prediction that a refresh cycle had priced and left PENDING
\* while the market was open was made PARTIAL by a cycle run after the close.
C29_Witness ==
    /\ pc = "update"
    /\ closed
    /\ lastEvent.kind = "priced"
    /\ articles[lastEvent.id].status = "PARTIAL"
    /\ Cardinality(SnapshotsOf(snapshots, lastEvent.id, 0)) = 2

\* C30: in every state reached by ingestion and refresh cycles run to
\* completion, a prediction whose status is not PENDING has at least one
\* price snapshot, and from then on no snapshot is appended for it.
C30_FinalHasFrozenSnapshots ==
    [][/\ \A i \in 1..Len(articles') :
             articles'[i].status # "PENDING" => SnapshotsOf(snapshots', i, 0) # {}
       /\ \A i \in 1..Len(articles) :
             articles[i].status # "PENDING"
                 => SnapshotsOf(snapshots', i, 0) = SnapshotsOf(snapshots, i, 0)]_vars

\* C30 witness: a refresh cycle appends a snapshot for a pending prediction
\* while the store holds a finalized prediction with its one snapshot.
C30_Witness ==
    /\ pc = "update"
    /\ lastEvent.kind = "priced"
    /\ Len(snapshots) = 2
    /\ \E i \in 1..Len(articles) :
          /\ i # lastEvent.id
          /\ articles[i].status \in Terminal
          /\ i \notin Range(cycle.batch)
          /\ Cardinality(SnapshotsOf(snapshots, i, 0)) = 1

====
